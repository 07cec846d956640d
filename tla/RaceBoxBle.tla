------------------------------- MODULE RaceBoxBle -------------------------------
(***************************************************************************)
(* RaceBoxBle: connection management, reconnection, the hand-over of       *)
(* notifications and sendCommand(), as two tasks run them.                 *)
(*                                                                         *)
(*   main    the Arduino loop: update() step by step, disconnect() and     *)
(*           sendCommand() in between; mpc is where it is;                 *)
(*   NimBLE  the host task: one callback at a time, its stores one by one; *)
(*           npc is where it is.                                           *)
(*                                                                         *)
(* The flags they share are plain bools and a pointer, so every load and   *)
(* store is a step of its own.  Connections are numbered: a frame in the   *)
(* FIFO and the cached RX characteristic carry the number of the one they  *)
(* came from, 0 being the null pointer.                                    *)
(*                                                                         *)
(* The NimBLE library and the radio are external.  The host task gets its  *)
(* events in order: what a link delivered, then its end, and only then an  *)
(* advertisement of the device, which does not advertise while connected.  *)
(* One RaceBox is in range, and other devices with the same service.       *)
(***************************************************************************)
EXTENDS Naturals, Sequences

CONSTANTS
  FifoCap,      \* frames the FIFO holds
  Advertises,   \* whether the RaceBox advertises the service
  MaxLinks,     \* bound: connections made
  MaxDrops,     \* bound: links lost that update() was not setting up
  MaxUpsets,    \* bound: links lost and discoveries failed before line 109
  MaxFailures,  \* bound: connections that fail
  MaxForeign,   \* bound: scan results of other devices with the same service
  MaxCalls      \* bound: calls of sendCommand() and of disconnect()

ASSUME BleAssumptions ==
  /\ FifoCap \in Nat \ {0}
  /\ Advertises \in BOOLEAN
  /\ MaxLinks \in Nat /\ MaxDrops \in Nat /\ MaxUpsets \in Nat /\ MaxFailures \in Nat
  /\ MaxForeign \in Nat /\ MaxCalls \in Nat

VARIABLES
  connected,    \* _connected
  doConnect,    \* _doConnect
  doScan,       \* _doScan
  targetFound,  \* targetFound
  rxChar,       \* _rxChar
  fifo,         \* frames of _fifo
  mpc,          \* where the main task is
  rx,           \* update()'s local rx
  npc,          \* where the NimBLE task is
  scanning,     \* the scan is on
  reported,     \* the RaceBox has been reported in this scan (duplicates are off)
  link,         \* "none", "up", or "lost": down, and the host has yet to say so
  serial,       \* connections made
  subscribed,   \* the TX characteristic of the latest connection is subscribed
  used,         \* the characteristics sendCommand() wrote to, with the link's state
  drops, upsets, failures, foreign, calls

flags == <<connected, doConnect, doScan, targetFound>>
main == <<mpc, rx>>
radio == <<scanning, reported, link, serial, subscribed>>
bounds == <<drops, upsets, failures, foreign, calls>>
vars == <<flags, rxChar, fifo, main, npc, radio, used, bounds>>

MainSteps == {"app", "update", "take", "stale", "connect", "discover", "fetch", "cache", "mark",
              "rescan", "forget", "untarget", "scan", "drain", "write"}
NimbleSteps == {"idle", "down", "unlink", "ask", "clear", "found", "wanted", "stop"}

FlagTypeOK ==
  connected \in BOOLEAN /\ doConnect \in BOOLEAN /\ doScan \in BOOLEAN /\ targetFound \in BOOLEAN
ScanTypeOK == scanning \in BOOLEAN /\ reported \in BOOLEAN /\ subscribed \in BOOLEAN
LinkTypeOK == link \in {"none", "up", "lost"} /\ serial \in Nat
FifoTypeOK == fifo \in Seq(Nat) /\ Len(fifo) <= FifoCap
TaskTypeOK ==
  /\ mpc \in MainSteps /\ npc \in NimbleSteps
  /\ rxChar \in Nat /\ rx \in Nat
  /\ used \subseteq {"null", "stale", "live"}
  /\ drops \in Nat /\ upsets \in Nat /\ failures \in Nat /\ foreign \in Nat /\ calls \in Nat

BleTypeOK == FlagTypeOK /\ ScanTypeOK /\ LinkTypeOK /\ FifoTypeOK /\ TaskTypeOK

\* begin() has started the scan.
Init ==
  /\ connected = FALSE /\ doConnect = FALSE /\ doScan = FALSE /\ targetFound = FALSE
  /\ rxChar = 0 /\ fifo = <<>>
  /\ mpc = "app" /\ rx = 0 /\ npc = "idle"
  /\ scanning = TRUE /\ reported = FALSE
  /\ link = "none" /\ serial = 0 /\ subscribed = FALSE
  /\ used = {}
  /\ drops = 0 /\ upsets = 0 /\ failures = 0 /\ foreign = 0 /\ calls = 0

------------------------------------------------------------------------------
(* update(), on the main task.                                              *)

At(step) == mpc = step
Goto(step) == mpc' = step /\ UNCHANGED <<npc, used, drops, upsets, foreign>>

\* Line 66: both flags are read.
CheckConnect ==
  /\ At("update")
  /\ Goto(IF doConnect /\ targetFound THEN "take" ELSE "rescan")
  /\ UNCHANGED <<flags, rxChar, fifo, rx, radio, failures, calls>>

\* Mutant: the request to connect is not taken back.
LeaveDoConnect == UNCHANGED doConnect
TakeDoConnect == doConnect' = FALSE

TakeRequest ==
  /\ At("take")
  /\ Goto("stale")
  /\ TakeDoConnect
  /\ UNCHANGED <<connected, doScan, targetFound, rxChar, fifo, rx, radio, failures, calls>>

\* Lines 72-76: a client of the same address is deleted, which ends its link.
DeleteStale ==
  /\ At("stale")
  /\ Goto("connect")
  /\ link' = IF link = "up" THEN "lost" ELSE link
  /\ UNCHANGED <<flags, rxChar, fifo, rx, scanning, reported, serial, subscribed, failures, calls>>

\* connect() stops the scan; the host task answers it, between two callbacks.
Connect ==
  /\ At("connect") /\ npc = "idle"
  /\ link = "none"
  /\ serial < MaxLinks
  /\ Goto("discover")
  /\ link' = "up" /\ serial' = serial + 1 /\ subscribed' = FALSE /\ scanning' = FALSE
  /\ UNCHANGED <<flags, rxChar, fifo, rx, reported, failures, calls>>

\* Mutant: the scan is not asked for again.
AskNothing == UNCHANGED doScan
AskRescan == doScan' = TRUE

\* Lines 78-83.
ConnectFails ==
  /\ At("connect") /\ npc = "idle"
  /\ link # "none" \/ serial = MaxLinks \/ failures < MaxFailures
  /\ failures' = IF link = "none" /\ serial < MaxLinks THEN failures + 1 ELSE failures
  /\ Goto("app")
  /\ scanning' = FALSE
  /\ AskRescan
  /\ UNCHANGED <<connected, doConnect, targetFound, rxChar, fifo, rx, reported, link, serial, subscribed, calls>>

\* Lines 85-103: the service and its TX characteristic.
Discover ==
  /\ At("discover")
  /\ link = "up"
  /\ Goto("fetch")
  /\ subscribed' = TRUE
  /\ UNCHANGED <<flags, rxChar, fifo, rx, scanning, reported, link, serial, failures, calls>>

DiscoverFails ==
  /\ At("discover")
  /\ link # "up" \/ upsets < MaxUpsets
  /\ upsets' = IF link = "up" THEN upsets + 1 ELSE upsets
  /\ mpc' = "app"
  /\ link' = IF link = "up" THEN "lost" ELSE link
  /\ AskRescan
  /\ UNCHANGED <<connected, doConnect, targetFound, rxChar, fifo, rx, npc, scanning, reported, serial,
                 subscribed, used, drops, failures, foreign, calls>>

\* Line 106; on a link already lost there is nothing to find.
FetchRx ==
  /\ At("fetch")
  /\ Goto("cache")
  /\ rx' = IF link = "up" THEN serial ELSE 0
  /\ UNCHANGED <<flags, rxChar, fifo, radio, failures, calls>>

CacheRx ==
  /\ At("cache")
  /\ Goto("mark")
  /\ rxChar' = rx
  /\ UNCHANGED <<flags, fifo, rx, radio, failures, calls>>

MarkConnected ==
  /\ At("mark")
  /\ Goto("rescan")
  /\ connected' = TRUE
  /\ UNCHANGED <<doConnect, doScan, targetFound, rxChar, fifo, rx, radio, failures, calls>>

\* Lines 115-120.
CheckScan ==
  /\ At("rescan")
  /\ Goto(IF doScan THEN "forget" ELSE "drain")
  /\ UNCHANGED <<flags, rxChar, fifo, rx, radio, failures, calls>>

TakeScan ==
  /\ At("forget")
  /\ Goto("untarget")
  /\ doScan' = FALSE
  /\ UNCHANGED <<connected, doConnect, targetFound, rxChar, fifo, rx, radio, failures, calls>>

ForgetTarget ==
  /\ At("untarget")
  /\ Goto("scan")
  /\ targetFound' = FALSE
  /\ UNCHANGED <<connected, doConnect, doScan, rxChar, fifo, rx, radio, failures, calls>>

\* A scan that is already on goes on.
StartScan ==
  /\ At("scan")
  /\ Goto("drain")
  /\ scanning' = TRUE
  /\ reported' = (scanning /\ reported)
  /\ UNCHANGED <<flags, rxChar, fifo, rx, link, serial, subscribed, failures, calls>>

\* _drainFifo(): a frame at a time.
Drain ==
  /\ At("drain")
  /\ IF fifo = <<>> THEN Goto("app") /\ UNCHANGED fifo
                    ELSE Goto("drain") /\ fifo' = Tail(fifo)
  /\ UNCHANGED <<flags, rxChar, rx, radio, failures, calls>>

CallUpdate ==
  /\ At("app")
  /\ Goto("update")
  /\ UNCHANGED <<flags, rxChar, fifo, rx, radio, failures, calls>>

Update ==
  \/ CallUpdate
  \/ CheckConnect \/ TakeRequest \/ DeleteStale \/ Connect \/ ConnectFails
  \/ Discover \/ DiscoverFails \/ FetchRx \/ CacheRx \/ MarkConnected
  \/ CheckScan \/ TakeScan \/ ForgetTarget \/ StartScan
  \/ Drain

------------------------------------------------------------------------------
(* sendCommand() and disconnect(), on the main task.                        *)

CallSend ==
  /\ At("app")
  /\ calls < MaxCalls
  /\ calls' = calls + 1
  /\ Goto(IF connected /\ rxChar # 0 THEN "write" ELSE "app")
  /\ UNCHANGED <<flags, rxChar, fifo, rx, radio, failures>>

\* Lines 140-141: the pointer is read again, and written through.
WriteCommand ==
  /\ At("write")
  /\ mpc' = "app"
  /\ used' = used \cup {CASE rxChar = 0 -> "null"
                          [] rxChar # serial -> "stale"
                          [] OTHER -> "live"}
  /\ UNCHANGED <<flags, rxChar, fifo, rx, npc, radio, bounds>>

CallDisconnect ==
  /\ At("app")
  /\ connected
  /\ calls < MaxCalls
  /\ calls' = calls + 1
  /\ Goto("app")
  /\ link' = IF link = "up" THEN "lost" ELSE link
  /\ UNCHANGED <<flags, rxChar, fifo, rx, scanning, reported, serial, subscribed, failures>>

------------------------------------------------------------------------------
(* The NimBLE task.                                                         *)

Host(step, next) ==
  /\ npc = step /\ npc' = next
  /\ UNCHANGED <<main, used, bounds, serial, subscribed>>

\* _handleDisconnect(), store by store.
LinkEnds ==
  /\ Host("idle", "down")
  /\ link = "lost" /\ link' = "none"
  /\ UNCHANGED <<flags, rxChar, fifo, scanning, reported>>
\* Mutant: isConnected() is left as it was.
UnconnectNothing == Host("down", "unlink") /\ UNCHANGED <<flags, rxChar, fifo, scanning, reported, link>>
Unconnect ==
  /\ Host("down", "unlink")
  /\ connected' = FALSE
  /\ UNCHANGED <<doConnect, doScan, targetFound, rxChar, fifo, scanning, reported, link>>
DropRx ==
  /\ Host("unlink", "ask")
  /\ rxChar' = 0
  /\ UNCHANGED <<flags, fifo, scanning, reported, link>>
RequestScan ==
  /\ Host("ask", "clear")
  /\ AskRescan
  /\ UNCHANGED <<connected, doConnect, targetFound, rxChar, fifo, scanning, reported, link>>

\* Mutant: the FIFO survives the link.
KeepFifo == UNCHANGED fifo
ClearFifo == fifo' = <<>>

DiscardBytes ==
  /\ Host("clear", "idle")
  /\ ClearFifo
  /\ UNCHANGED <<flags, rxChar, scanning, reported, link>>

\* onResult() for the RaceBox: the target, then the request, then the scan stops.
Advertised ==
  /\ Host("idle", "found")
  /\ scanning /\ ~reported /\ link = "none"
  /\ reported' = TRUE
  /\ UNCHANGED <<flags, rxChar, fifo, scanning, link>>
FoundTarget ==
  /\ Host("found", "wanted")
  /\ targetFound' = TRUE
  /\ UNCHANGED <<connected, doConnect, doScan, rxChar, fifo, scanning, reported, link>>
WantConnect ==
  /\ Host("wanted", IF Advertises THEN "stop" ELSE "idle")
  /\ doConnect' = TRUE
  /\ UNCHANGED <<connected, doScan, targetFound, rxChar, fifo, scanning, reported, link>>
StopScan ==
  /\ Host("stop", "idle")
  /\ scanning' = FALSE
  /\ UNCHANGED <<flags, rxChar, fifo, reported, link>>

\* onResult() for another device with the Nordic UART service.
ForeignAdvertised ==
  /\ npc = "idle" /\ npc' = "stop"
  /\ scanning
  /\ foreign < MaxForeign
  /\ foreign' = foreign + 1
  /\ UNCHANGED <<flags, rxChar, fifo, main, radio, used, drops, upsets, failures, calls>>

\* Mutant: a full FIFO drops nothing.
DropNothing == fifo
MakeRoom == IF Len(fifo) < FifoCap THEN fifo ELSE Tail(fifo)

\* _handleNotification(); a full FIFO drops its oldest frame.
Notified ==
  /\ Host("idle", "idle")
  /\ link # "none" /\ subscribed
  /\ fifo' = Append(MakeRoom, serial)
  /\ UNCHANGED <<flags, rxChar, scanning, reported, link>>

\* What the host task owes once an event is there.
Callbacks ==
  \/ LinkEnds \/ Unconnect \/ DropRx \/ RequestScan \/ DiscardBytes
  \/ FoundTarget \/ WantConnect \/ StopScan

SettingUp == mpc \in {"discover", "fetch", "cache", "mark"}

\* The link is lost, by distance or by the device.
Drop ==
  /\ link = "up"
  /\ \/ SettingUp /\ upsets < MaxUpsets /\ upsets' = upsets + 1 /\ UNCHANGED drops
     \/ ~SettingUp /\ drops < MaxDrops /\ drops' = drops + 1 /\ UNCHANGED upsets
  /\ link' = "lost"
  /\ UNCHANGED <<flags, rxChar, fifo, main, npc, scanning, reported, serial, subscribed, used,
                 failures, foreign, calls>>

Next ==
  \/ Update \/ CallSend \/ WriteCommand \/ CallDisconnect
  \/ Callbacks \/ Advertised \/ ForeignAdvertised \/ Notified
  \/ Drop

Spec == Init /\ [][Next]_vars

\* Both tasks run, and a RaceBox that is not connected is heard by a scan in
\* the end.  Nothing else is owed.
FairSpec ==
  /\ Spec
  /\ WF_vars(Update \/ WriteCommand)
  /\ WF_vars(Callbacks)
  /\ WF_vars(Advertised)

------------------------------------------------------------------------------
(* What RaceBoxBle guarantees.                                              *)

(* No frame of one connection is dispatched in another: whatever the order  *)
(* of stores and loads, the FIFO only ever holds frames of the latest link. *)
FramesAreOfThisLink == \A i \in DOMAIN fifo : fifo[i] = serial

\* No connection was disturbed while it was set up, and no other device with
\* the service ended a scan.
Undisturbed == upsets = 0 /\ foreign = 0

(* update() tears no live link down: the client it deletes before it        *)
(* connects is, as its comment says, "the old disconnected client"          *)
(* (RaceBoxBle.cpp:69-71), unless a set-up was disturbed.                   *)
LiveClientIsKept == Undisturbed /\ At("stale") => link # "up"

(* When both tasks are at rest, isConnected() is true only of a link that   *)
(* is there, unless a set-up was disturbed.                                 *)
ConnectedMeansLinked ==
  Undisturbed /\ connected /\ At("app") /\ npc = "idle" => link # "none"

(* A link that is not up is made again, and isConnected() says so, unless a *)
(* set-up was disturbed: whatever links are lost and connections fail,      *)
(* update() and the callbacks never wait for each other.                    *)
LostLinkIsMadeAgain == link # "up" ~> ~Undisturbed \/ (link = "up" /\ connected)

(* README.md:374, "BLE reconnection is automatic", with no exception.       *)
ReconnectionIsAutomatic == link # "up" ~> link = "up" /\ connected

(* RaceBoxBle.h:105: sendCommand() "Returns false if not connected or the   *)
(* characteristic is unavailable", so it never writes through a null one.   *)
NeverWritesThroughNull == "null" \notin used
==============================================================================
