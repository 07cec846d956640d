---------------------------- MODULE DownloadSession ----------------------------
(***************************************************************************)
(* A download end to end: the application's loop, RaceBoxDownloader, the   *)
(* receive FIFO of RaceBoxBle, the radio link and the RaceBox.             *)
(*                                                                         *)
(*   loop      pc = "drain" in ble.update(), which dl.update() follows at  *)
(*             once (it reads no packet, so that nothing is told apart by  *)
(*             what comes between), and "app" in the application's calls;  *)
(*   link      carries commands to the device (toDev) and notifications    *)
(*             into the FIFO (fifo) in order; it may drop at any moment,   *)
(*             which empties both and resets the device's memory lock;     *)
(*   FIFO      when full, a push drops the oldest bytes, which costs whole *)
(*             frames: the oldest one, and the frames the damaged one      *)
(*             swallows when extractFrame() resynchronises;                *)
(*   RaceBox   external: it answers an unlock, a trigger and an erase, and *)
(*             streams its Stored records, then acknowledges the trigger.  *)
(*                                                                         *)
(* begins, got, lost and doneBy only observe.                              *)
(***************************************************************************)
EXTENDS RaceBoxDownloader, Link

CONSTANTS
  Stored,           \* number of records in the device's memory
  SecurityEnabled,  \* whether the device demands an unlock before a download
  StopsEarly,       \* whether the device may send fewer records than it announced
  Impatient,        \* whether the application restarts a download under way
  MaxBegins,        \* bound: calls of begin()
  MaxMarkers        \* bound: boundary markers the device inserts

ASSUME SessionAssumptions ==
  /\ Stored \in Nat
  /\ SecurityEnabled \in BOOLEAN
  /\ StopsEarly \in BOOLEAN
  /\ Impatient \in BOOLEAN
  /\ MaxBegins \in Nat
  /\ MaxMarkers \in Nat
  /\ HasRecordCallback = TRUE

VARIABLES
  pc,         \* where the application's loop is
  polled,     \* dl.update() has run since the clock last moved
  dev,        \* the device
  markers,    \* boundary markers sent
  begins,     \* calls of begin()
  got,        \* records handed to the application since the last begin()
  lost,       \* records that were sent and lost, or never sent
  doneBy      \* what put the driver into DONE: "ack", "silence", or "none"

loopVars == <<pc, polled, begins>>
devVars == <<dev, markers>>
ghosts == <<got, lost, doneBy>>
vars == <<dlVars, linkVars, loopVars, devVars, ghosts>>

History == 0 .. Stored - 1
Handed == {got[i] : i \in DOMAIN got}
Idle(d) == [d EXCEPT !.sending = FALSE, !.next = 0]

SessionTypeOK ==
  /\ TypeOK
  /\ pc \in {"drain", "app"}
  /\ polled \in BOOLEAN
  /\ LinkTypeOK
  /\ dev \in [sending : BOOLEAN, next : Nat, unlocked : BOOLEAN, erased : BOOLEAN]
  /\ markers \in Nat /\ begins \in Nat
  /\ got \in Seq(Nat)
  /\ lost \subseteq History
  /\ doneBy \in {"none", "ack", "silence"}

SessionInit ==
  /\ Init
  /\ pc = "drain" /\ polled = FALSE
  /\ LinkInit
  /\ dev = [sending |-> FALSE, next |-> 0, unlocked |-> FALSE, erased |-> FALSE]
  /\ markers = 0 /\ begins = 0
  /\ got = <<>> /\ lost = {} /\ doneBy = "none"

------------------------------------------------------------------------------
(* The driver's outputs meet the link and the application.                  *)

Observe(cause) ==
  /\ got' = IF HandsOverRecord(calls') THEN Append(got, calls'[1].data) ELSE got
  /\ doneBy' = IF state # "DONE" /\ state' = "DONE" THEN cause ELSE doneBy

\* What every driver action leaves to the link and the device.
Elsewhere == UNCHANGED <<connected, drops, devVars, lost>>

------------------------------------------------------------------------------
(* The application's loop.                                                  *)

\* _drainFifo(): one complete frame is taken out and dispatched.
Dispatch ==
  /\ pc = "drain"
  /\ fifo # <<>>
  /\ ExtractFrame
  /\ \E ok \in Results : OnPacket(Head(fifo), ok)
  /\ Transmit(tx') /\ Observe("ack") /\ Elsewhere
  /\ UNCHANGED <<pc, polled, begins>>

\* update() reconnects first and returns from _drainFifo() with the FIFO empty.
Drained == pc = "drain" /\ fifo = <<>>

Reconnect ==
  /\ pc = "drain"
  /\ LinkUp
  /\ Silent
  /\ UNCHANGED <<loopVars, devVars, ghosts>>

Watch ==
  /\ Drained
  /\ Update
  /\ Transmit(tx') /\ Observe("silence") /\ Elsewhere
  /\ pc' = "app"
  /\ polled' = TRUE
  /\ UNCHANGED <<fifo, begins>>

AppBegin ==
  /\ pc = "app"
  /\ begins < MaxBegins
  /\ Impatient \/ state \in {"IDLE"} \cup Finished
  /\ \E ok \in Results : Begin(ok)
  /\ begins' = begins + 1
  /\ got' = <<>>
  /\ Transmit(tx') /\ Elsewhere
  /\ UNCHANGED <<pc, polled, fifo, doneBy>>

\* setSecurityCode() comes before begin() (RaceBoxDownloader.h:39-42).
AppSetSecurityCode ==
  /\ pc = "app"
  /\ begins = 0
  /\ \E isSet \in BOOLEAN : SetSecurityCode(isSet)
  /\ Transmit(tx') /\ Elsewhere
  /\ UNCHANGED <<pc, polled, fifo, begins, got, doneBy>>

\* eraseMemory() only after isDone() (RaceBoxDownloader.h:67-69).
AppErase ==
  /\ pc = "app"
  /\ state = "DONE"
  /\ ~dev.erased /\ toDev = <<>>
  /\ \E ok \in Results : EraseMemory(ok)
  /\ Transmit(tx') /\ Elsewhere
  /\ UNCHANGED <<pc, polled, fifo, begins, got, doneBy>>

LoopAgain ==
  /\ pc = "app"
  /\ pc' = "drain"
  /\ Silent
  /\ UNCHANGED <<linkVars, devVars, ghosts, polled, begins>>

Loop == Dispatch \/ Watch \/ LoopAgain

\* The loop polls the watchdog at least once per clock step.
ClockTick ==
  /\ polled
  /\ Tick
  /\ polled' = FALSE
  /\ UNCHANGED <<linkVars, devVars, ghosts, pc, begins>>

------------------------------------------------------------------------------
(* What reaches the FIFO, and the link.                                     *)

Positions(s) == {s[i].arg : i \in {j \in DOMAIN s : s[j].id = UBX_ID_HISTORY}} \cap History

\* A notification; what an overflow costs is noted.
Notify(pkt) ==
  \E k \in 0 .. MaxMangled :
    /\ Push(pkt, k)
    /\ lost' = lost \cup Positions(SubSeq(fifo, 1, k))

\* The disconnect event: _handleDisconnect() empties the FIFO, the device
\* stops sending and locks its memory again.
Drop ==
  /\ LinkDown
  /\ lost' = lost \cup Positions(fifo) \cup (IF dev.sending THEN dev.next .. Stored - 1 ELSE {})
  /\ dev' = [Idle(dev) EXCEPT !.unlocked = FALSE]
  /\ Silent
  /\ UNCHANGED <<loopVars, markers, got, doneBy>>

------------------------------------------------------------------------------
(* The RaceBox.                                                             *)

DevStep ==
  /\ connected
  /\ Silent
  /\ UNCHANGED <<loopVars, connected, drops, got, doneBy>>

DevUnlock ==
  /\ Receives(UBX_ID_MEM_UNLOCK)
  /\ toDev' = Tail(toDev)
  /\ \/ dev' = [dev EXCEPT !.unlocked = TRUE] /\ Notify(Packet(UBX_ID_ACK, 2, UBX_ID_MEM_UNLOCK))
     \/ UNCHANGED dev /\ Notify(Packet(UBX_ID_NACK, 2, UBX_ID_MEM_UNLOCK))
  /\ UNCHANGED markers

DevDownload ==
  /\ Receives(UBX_ID_DOWNLOAD)
  /\ toDev' = Tail(toDev)
  /\ \/ /\ SecurityEnabled => dev.unlocked
        /\ dev' = [dev EXCEPT !.sending = TRUE, !.next = IF dev.erased THEN Stored ELSE 0]
        /\ Notify(Packet(UBX_ID_DOWNLOAD, 4, IF dev.erased THEN 0 ELSE Stored))
     \/ UNCHANGED dev /\ Notify(Packet(UBX_ID_NACK, 2, UBX_ID_DOWNLOAD))
  /\ UNCHANGED markers

DevErase ==
  /\ Receives(UBX_ID_ERASE)
  /\ toDev' = Tail(toDev)
  /\ dev' = [Idle(dev) EXCEPT !.erased = TRUE]
  /\ Notify(Packet(UBX_ID_ACK, 2, UBX_ID_ERASE))
  /\ UNCHANGED markers

DevRecord ==
  /\ dev.sending /\ dev.next < Stored
  /\ dev' = [dev EXCEPT !.next = @ + 1]
  /\ Notify(Packet(UBX_ID_HISTORY, RACEBOX_PAYLOAD_LEN, dev.next))
  /\ UNCHANGED <<toDev, markers>>

\* DownloadBench calls it normal that fewer records come than were announced.
DevStopEarly ==
  /\ StopsEarly
  /\ dev.sending /\ dev.next < Stored
  /\ dev' = [dev EXCEPT !.next = Stored]
  /\ lost' = lost \cup dev.next .. Stored - 1
  /\ UNCHANGED <<fifo, toDev, markers>>

DevMarker ==
  /\ dev.sending /\ markers < MaxMarkers
  /\ markers' = markers + 1
  /\ Notify(Packet(UBX_ID_STATE_CHANGE, 12, 1))
  /\ UNCHANGED <<toDev, dev>>

DevComplete ==
  /\ dev.sending /\ dev.next = Stored
  /\ dev' = Idle(dev)
  /\ Notify(Packet(UBX_ID_ACK, 2, UBX_ID_DOWNLOAD))
  /\ UNCHANGED <<toDev, markers>>

Device ==
  /\ DevStep
  /\ \/ DevUnlock \/ DevDownload \/ DevErase
     \/ DevRecord \/ DevMarker \/ DevStopEarly \/ DevComplete

SessionNext ==
  \/ Dispatch \/ Reconnect \/ Watch \/ LoopAgain
  \/ AppBegin \/ AppSetSecurityCode \/ AppErase
  \/ ClockTick \/ Drop \/ Device

SessionSpec == SessionInit /\ [][SessionNext]_vars

\* The Arduino loop keeps running and the clock keeps counting; nothing else
\* is owed: the link, the device and the application may stop at any point.
FairSessionSpec == SessionSpec /\ WF_vars(Loop) /\ WF_vars(ClockTick)

------------------------------------------------------------------------------
(* What a session guarantees.                                               *)

(* A first download hands the records over in recording order, each at most *)
(* once: no retransmission, overflow, reconnection or late packet repeats   *)
(* or reorders what _onPacket() passes to onRecord.                         *)
RecordsInOrder ==
  begins <= 1 => \A i, j \in DOMAIN got : i < j => got[i] < got[j]

(* The watchdog's success is earned: when update() ends a first download as *)
(* DONE because only the final ACK is missing, every record was handed over.*)
SilentSuccessIsComplete ==
  begins <= 1 /\ state = "DONE" /\ doneBy = "silence" => Handed = History

(* The download trigger never reaches a locked device once a security code  *)
(* is set: a trigger under way was preceded, on the same connection, by the *)
(* device accepting the unlock.  An unlock ACK must not survive a link loss,*)
(* which is what clearing the FIFO in _handleDisconnect() is for.           *)
TriggerMeetsUnlockedDevice ==
  hasSecurityCode =>
    \A i \in DOMAIN toDev : toDev[i].id = UBX_ID_DOWNLOAD => dev.unlocked

(* A session implements the abstract download: calls of begin(), overflows, *)
(* link losses and late packets included.                                   *)
Status ==
  CASE state = "IDLE" -> "idle"
    [] state = "DONE" -> "done"
    [] state = "ERROR" -> "error"
    [] OTHER -> "running"

Promise == INSTANCE HistoryDownload WITH status <- Status, missed <- lost, first <- begins <= 1

KeepsPromise == Promise!HDSpec

(* A download that got past the unlock ends: once triggered, the watchdog   *)
(* brings it to DONE or ERROR whatever the device and the link do, unless   *)
(* the application starts over and waits for an unlock again.               *)
TriggeredDownloadEnds ==
  state \in {"REQUESTED", "RECEIVING"} ~> state \in Finished \cup {"UNLOCKING"}

(* The comment in update(): the watchdog reports success because "all       *)
(* expected records were received", in every download of a session.         *)
SilentSuccessAlwaysComplete ==
  state = "DONE" /\ doneBy = "silence" /\ ~dev.erased => Handed = History

(* What the README says of isError(): a download without data ends in it    *)
(* after 30 s, one that waits for the unlock's answer included.             *)
WaitingDownloadEnds == state = "UNLOCKING" ~> state # "UNLOCKING"
==============================================================================
