--------------------------- MODULE RaceBoxDownloader ---------------------------
(***************************************************************************)
(* RaceBoxDownloader: the driver that pulls the recorded history out of a  *)
(* RaceBox.  begin() sends an unlock command or the download trigger, the  *)
(* packet handler follows the device's answers, update() is a watchdog on  *)
(* silence.                                                                *)
(*                                                                         *)
(* Every action is one entry point of the class.  The value sendCommand()  *)
(* returns to it is the parameter ok; the command it writes and the        *)
(* application callbacks it runs are the output variables tx and calls,    *)
(* which hold what the last step produced.  This module's Next drives the  *)
(* class with any packet, at any moment, in any state; DownloadSession     *)
(* drives the same actions through a link and a device.                    *)
(***************************************************************************)
EXTENDS Ubx, Millis, Sequences

CONSTANTS
  TIMEOUT_MS,          \* the watchdog's inactivity limit (30 s in the code)
  HasRecordCallback,   \* whether the constructor was given an onRecord
  HasStateChangeCallback,   \* whether setStateChangeCallback() was called
  Deliverable,         \* packets the environment may deliver
  CountBound           \* bound on recordCount (a uint32_t in the code)

ASSUME DownloaderAssumptions ==
  /\ TIMEOUT_MS \in Nat
  /\ {HasRecordCallback, HasStateChangeCallback} \subseteq BOOLEAN
  /\ Deliverable \subseteq UbxPacket
  /\ CountBound \in Nat

VARIABLES
  state,             \* _state
  expectedCount,     \* _expectedCount
  recordCount,       \* _recordCount
  lastRxMs,          \* _lastRxMs
  startRxMs,         \* _startRxMs; 0 also means "no record yet"
  hasSecurityCode,   \* _hasSecurityCode
  millis,            \* what millis() returns
  tx,                \* commands written by the last step
  calls              \* application callbacks run by the last step

counts == <<expectedCount, recordCount>>
outputs == <<tx, calls>>
dlVars == <<state, expectedCount, recordCount, lastRxMs, startRxMs,
            hasSecurityCode, millis, tx, calls>>

State == {"IDLE", "UNLOCKING", "REQUESTED", "RECEIVING", "DONE", "ERROR"}
Finished == {"DONE", "ERROR"}

Call == [fn : {"onRecord", "stateChange"}, index : Nat, data : Nat]

TypeOK ==
  /\ state \in State
  /\ expectedCount \in Nat
  /\ recordCount \in Nat
  /\ lastRxMs \in Time
  /\ startRxMs \in Time
  /\ hasSecurityCode \in BOOLEAN
  /\ millis \in Time
  /\ tx \in Seq(UbxPacket)
  /\ calls \in Seq(Call)

Init ==
  /\ state = "IDLE"
  /\ expectedCount = 0
  /\ recordCount = 0
  /\ lastRxMs = 0
  /\ startRxMs = 0
  /\ hasSecurityCode = FALSE
  /\ millis \in Time
  /\ tx = <<>>
  /\ calls = <<>>

------------------------------------------------------------------------------
(* sendCommand() either writes the command or reports that it could not.    *)
Send(cmd, ok) == tx' = IF ok THEN <<cmd>> ELSE <<>>

\* _sendDownloadTrigger(), entered with _lastRxMs = since.
SendDownloadTrigger(since, ok) ==
  /\ Send(Packet(UBX_ID_DOWNLOAD, 0, 0), ok)
  /\ state' = IF ok THEN "REQUESTED" ELSE "ERROR"
  /\ lastRxMs' = IF ok THEN millis ELSE since

SendUnlock(ok) ==
  /\ Send(Packet(UBX_ID_MEM_UNLOCK, 4, 0), ok)
  /\ state' = IF ok THEN "UNLOCKING" ELSE "ERROR"
  /\ lastRxMs' = IF ok THEN millis ELSE lastRxMs

Begin(ok) ==
  /\ IF hasSecurityCode THEN SendUnlock(ok) ELSE SendDownloadTrigger(lastRxMs, ok)
  /\ calls' = <<>>
  /\ UNCHANGED <<counts, startRxMs, hasSecurityCode, millis>>

\* setSecurityCode(code): a code of 0 disables unlocking.
SetSecurityCode(isSet) ==
  /\ hasSecurityCode' = isSet
  /\ tx' = <<>>
  /\ calls' = <<>>
  /\ UNCHANGED <<state, counts, lastRxMs, startRxMs, millis>>

EraseMemory(ok) ==
  /\ Send(Packet(UBX_ID_ERASE, 0, 0), ok)
  /\ calls' = <<>>
  /\ UNCHANGED <<state, counts, lastRxMs, startRxMs, hasSecurityCode, millis>>

TimedOut == Elapsed(millis, lastRxMs) > TIMEOUT_MS

\* Mutant: the watchdog forgets the wait for the record count.
WatchedOnceReceiving == state = "RECEIVING"
Watched == state \in {"REQUESTED", "RECEIVING"}

\* Mutant: any download that was announced counts as complete.
Announced == state = "RECEIVING" /\ expectedCount > 0
AllReceived == state = "RECEIVING" /\ expectedCount > 0 /\ recordCount >= expectedCount

\* Silence ends a download, well if only the final ACK is missing.
Update ==
  /\ state' = IF Watched /\ TimedOut THEN IF AllReceived THEN "DONE" ELSE "ERROR"
                                    ELSE state
  /\ tx' = <<>>
  /\ calls' = <<>>
  /\ UNCHANGED <<counts, lastRxMs, startRxMs, hasSecurityCode, millis>>

------------------------------------------------------------------------------
(* The branches of _onPacket() that do something.                           *)

\* Mutant: a count is taken in any state.
AnnouncesAnytime(pkt) == pkt.id = UBX_ID_DOWNLOAD /\ pkt.len >= 4
Announces(pkt) == pkt.id = UBX_ID_DOWNLOAD /\ state = "REQUESTED" /\ pkt.len >= 4
Records(pkt)   == pkt.id = UBX_ID_HISTORY /\ state = "RECEIVING" /\ HasRecordCallback
Marks(pkt)     == pkt.id = UBX_ID_STATE_CHANGE /\ pkt.len >= 1 /\ HasStateChangeCallback
Unlocks(pkt)   == pkt.id = UBX_ID_ACK /\ state = "UNLOCKING" /\ Answers(pkt, UBX_ID_MEM_UNLOCK)
Completes(pkt) == pkt.id = UBX_ID_ACK /\ state = "RECEIVING" /\ Answers(pkt, UBX_ID_DOWNLOAD)
Refuses(pkt) ==
  /\ pkt.id = UBX_ID_NACK
  /\ \/ state = "UNLOCKING" /\ Answers(pkt, UBX_ID_MEM_UNLOCK)
     \/ state = "REQUESTED" /\ Answers(pkt, UBX_ID_DOWNLOAD)

CountAnnounced(pkt) ==
  /\ Announces(pkt)
  /\ expectedCount' = pkt.arg
  /\ state' = "RECEIVING"
  /\ lastRxMs' = millis
  /\ tx' = <<>>
  /\ calls' = <<>>
  /\ UNCHANGED <<recordCount, startRxMs>>

RecordReceived(pkt) ==
  /\ Records(pkt)
  /\ startRxMs' = IF startRxMs = 0 THEN millis ELSE startRxMs
  /\ IF Parses(pkt)
       THEN /\ calls' = <<[fn |-> "onRecord", index |-> recordCount, data |-> pkt.arg]>>
            /\ recordCount' = recordCount + 1
       ELSE calls' = <<>> /\ UNCHANGED recordCount
  /\ lastRxMs' = millis
  /\ tx' = <<>>
  /\ UNCHANGED <<state, expectedCount>>

BoundaryMarked(pkt) ==
  /\ Marks(pkt)
  /\ calls' = <<[fn |-> "stateChange", index |-> 0, data |-> pkt.arg]>>
  /\ lastRxMs' = millis
  /\ tx' = <<>>
  /\ UNCHANGED <<state, counts, startRxMs>>

Unlocked(pkt, ok) ==
  /\ Unlocks(pkt)
  /\ SendDownloadTrigger(millis, ok)
  /\ calls' = <<>>
  /\ UNCHANGED <<counts, startRxMs>>

Completed(pkt) ==
  /\ Completes(pkt)
  /\ state' = "DONE"
  /\ lastRxMs' = millis
  /\ tx' = <<>>
  /\ calls' = <<>>
  /\ UNCHANGED <<counts, startRxMs>>

Refused(pkt) ==
  /\ Refuses(pkt)
  /\ state' = "ERROR"
  /\ lastRxMs' = millis
  /\ tx' = <<>>
  /\ calls' = <<>>
  /\ UNCHANGED <<counts, startRxMs>>

\* Anything else, late or unexpected, only feeds the watchdog.
Ignored(pkt) ==
  /\ ~(Announces(pkt) \/ Records(pkt) \/ Marks(pkt) \/ Unlocks(pkt)
       \/ Completes(pkt) \/ Refuses(pkt))
  /\ lastRxMs' = millis
  /\ tx' = <<>>
  /\ calls' = <<>>
  /\ UNCHANGED <<state, counts, startRxMs>>

\* _onPacket(pkt); a packet of another class leaves the driver untouched.
ForeignClass(pkt) ==
  /\ pkt.cls # UBX_CLASS_RACEBOX
  /\ tx' = <<>>
  /\ calls' = <<>>
  /\ UNCHANGED <<state, counts, lastRxMs, startRxMs>>

OnPacket(pkt, ok) ==
  /\ UNCHANGED <<hasSecurityCode, millis>>
  /\ \/ ForeignClass(pkt)
     \/ /\ pkt.cls = UBX_CLASS_RACEBOX
        /\ \/ CountAnnounced(pkt)
           \/ RecordReceived(pkt)
           \/ BoundaryMarked(pkt)
           \/ Unlocked(pkt, ok)
           \/ Completed(pkt)
           \/ Refused(pkt)
           \/ Ignored(pkt)

Tick ==
  /\ millis' = Later(millis)
  /\ tx' = <<>>
  /\ calls' = <<>>
  /\ UNCHANGED <<state, counts, lastRxMs, startRxMs, hasSecurityCode>>

\* A step of the world around the driver.
Silent ==
  /\ tx' = <<>>
  /\ calls' = <<>>
  /\ UNCHANGED <<state, counts, lastRxMs, startRxMs, hasSecurityCode, millis>>

Next ==
  \/ \E ok \in BOOLEAN : Begin(ok)
  \/ \E isSet \in BOOLEAN : SetSecurityCode(isSet)
  \/ \E ok \in BOOLEAN : EraseMemory(ok)
  \/ Update
  \/ \E pkt \in Deliverable, ok \in BOOLEAN :
       (pkt.id = UBX_ID_HISTORY => recordCount < CountBound) /\ OnPacket(pkt, ok)
  \/ Tick
  \/ Silent

Spec == Init /\ [][Next]_dlVars

HandsOverRecord(made) == \E i \in DOMAIN made : made[i].fn = "onRecord"

(* A download that has finished stays finished, whatever arrives late:     *)
(* until the application calls begin() again no packet, no watchdog and no *)
(* other call moves the driver out of DONE or ERROR, changes its counts or *)
(* hands the application another record.                                   *)
LateAnswersIgnored ==
  [][(state \in Finished /\ ~\E ok \in BOOLEAN : Begin(ok))
       => (UNCHANGED <<state, counts>> /\ ~HandsOverRecord(calls'))]_dlVars
==============================================================================
