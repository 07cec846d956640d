----------------------- MODULE RaceBoxDownloaderProofs ------------------------
(***************************************************************************)
(* Proofs about the downloader. First under any environment: whatever      *)
(* packets it is handed, whenever the application calls it and however     *)
(* long the clock runs.                                                    *)
(*                                                                         *)
(* Then about DownloadSession, for any memory size, FIFO, clock and number *)
(* of downloads, link losses and boundary markers. The variable silence of *)
(* the first part plays no role there.                                     *)
(*                                                                         *)
(* SessionInv is the inductive invariant of a session. Lock says why a     *)
(* trigger finds the device unlocked; the other parts follow a first       *)
(* download: its one trigger, what the device answers in which order, and  *)
(* where each record is.                                                   *)
(***************************************************************************)
EXTENDS DownloaderSilence, DownloadSession, DriverLemmas, TLAPS

------------------------------------------------------------------------------
(* The driver, under any environment.                                       *)

(* What sendCommand() puts on the air is a packet.                          *)
LEMMA SendType ==
  ASSUME NEW cmd \in UbxPacket, NEW ok, Send(cmd, ok)
  PROVE  tx' \in Seq(UbxPacket)
BY AtMostOne DEF Send

(* A call that is not a packet keeps every variable in its type.            *)
LEMMA CallTypeOK ==
  ASSUME TypeOK,
         \/ \E ok \in BOOLEAN : Begin(ok)
         \/ \E isSet \in BOOLEAN : SetSecurityCode(isSet)
         \/ \E ok \in BOOLEAN : EraseMemory(ok)
         \/ Update
         \/ Tick
         \/ Silent
  PROVE  TypeOK'
<1>1. CASE \E ok \in BOOLEAN : Begin(ok)
  <2>1. Packet(UBX_ID_DOWNLOAD, 0, 0) \in UbxPacket /\ Packet(UBX_ID_MEM_UNLOCK, 4, 0) \in UbxPacket
    BY PacketType DEF UBX_ID_DOWNLOAD, UBX_ID_MEM_UNLOCK
  <2>. QED
    <3>. PICK ok \in BOOLEAN : Begin(ok)
      BY <1>1
    <3>1. UNCHANGED <<expectedCount, recordCount, startRxMs, hasSecurityCode, millis>> /\ calls' = <<>>
      BY DEF Begin, counts
    <3>2. state' \in State
      BY DEF Begin, SendUnlock, SendDownloadTrigger, State
    <3>3. lastRxMs' \in Time
      BY DEF TypeOK, Begin, SendUnlock, SendDownloadTrigger
    <3>4. tx' \in Seq(UbxPacket)
      BY <2>1, SendType DEF Begin, SendUnlock, SendDownloadTrigger
    <3>. QED
      BY <3>1, <3>2, <3>3, <3>4 DEF TypeOK
<1>2. CASE \E isSet \in BOOLEAN : SetSecurityCode(isSet)
  BY <1>2 DEF TypeOK, SetSecurityCode, counts
<1>3. CASE \E ok \in BOOLEAN : EraseMemory(ok)
  <2>1. Packet(UBX_ID_ERASE, 0, 0) \in UbxPacket
    BY PacketType DEF UBX_ID_ERASE
  <2>. QED
    BY <1>3, <2>1 DEF TypeOK, EraseMemory, Send, counts
<1>4. CASE Update
  BY <1>4 DEF TypeOK, Update, counts, State
<1>5. CASE Tick
  BY <1>5, TimeLaws DEF TypeOK, Tick, counts
<1>6. CASE Silent
  BY <1>6 DEF TypeOK, Silent, counts
<1>. QED
  BY <1>1, <1>2, <1>3, <1>4, <1>5, <1>6

(* A packet keeps every variable in its type.                               *)
LEMMA PacketTypeOK ==
  ASSUME TypeOK, NEW pkt \in UbxPacket, NEW ok \in BOOLEAN, OnPacket(pkt, ok)
  PROVE  TypeOK'
<1>1. UNCHANGED <<hasSecurityCode, millis>>
  BY DEF OnPacket
<1>2. CASE ForeignClass(pkt)
  BY <1>1, <1>2 DEF TypeOK, ForeignClass, counts
<1>3. CASE CountAnnounced(pkt)
  BY <1>1, <1>3 DEF TypeOK, CountAnnounced, State, UbxPacket
<1>4. CASE RecordReceived(pkt)
  <2>1. [fn |-> "onRecord", index |-> recordCount, data |-> pkt.arg] \in Call
    BY DEF TypeOK, Call, UbxPacket
  <2>. QED
    <3>1. UNCHANGED <<state, expectedCount, hasSecurityCode, millis>> /\ tx' = <<>> /\ lastRxMs' = millis
      BY <1>1, <1>4 DEF RecordReceived
    <3>2. startRxMs' \in Time
      BY <1>4 DEF RecordReceived, TypeOK
    <3>3. recordCount' \in Nat
      BY <1>4 DEF RecordReceived, TypeOK
    <3>4. calls' = <<[fn |-> "onRecord", index |-> recordCount, data |-> pkt.arg]>> \/ calls' = <<>>
      BY <1>4 DEF RecordReceived
    <3>5. calls' \in Seq(Call)
      BY <2>1, <3>4, AtMostOne
    <3>. QED
      BY <3>1, <3>2, <3>3, <3>5 DEF TypeOK
<1>5. CASE BoundaryMarked(pkt)
  <2>1. [fn |-> "stateChange", index |-> 0, data |-> pkt.arg] \in Call
    BY DEF TypeOK, Call, UbxPacket
  <2>. QED
    BY <1>1, <1>5, <2>1 DEF TypeOK, BoundaryMarked, State, counts
<1>6. CASE Unlocked(pkt, ok)
  <2>1. Packet(UBX_ID_DOWNLOAD, 0, 0) \in UbxPacket
    BY PacketType DEF UBX_ID_DOWNLOAD
  <2>. QED
    BY <1>1, <1>6, <2>1 DEF TypeOK, Unlocked, SendDownloadTrigger, Send, State, counts
<1>7. CASE Completed(pkt)
  BY <1>1, <1>7 DEF TypeOK, Completed, State, counts
<1>8. CASE Refused(pkt)
  BY <1>1, <1>8 DEF TypeOK, Refused, State, counts
<1>9. CASE Ignored(pkt)
  BY <1>1, <1>9 DEF TypeOK, Ignored, State, counts
<1>. QED
  BY <1>2, <1>3, <1>4, <1>5, <1>6, <1>7, <1>8, <1>9 DEF OnPacket

(* The initial state is in the types.                                       *)
LEMMA InitTypeOK == Init => TypeOK
<1>. SUFFICES ASSUME Init PROVE TypeOK
  OBVIOUS
<1>1. hasSecurityCode \in BOOLEAN
  BY DEF Init
<1>2. state \in State /\ lastRxMs \in Time /\ startRxMs \in Time /\ millis \in Time
  BY ZeroIsTime DEF Init, State
<1>3. expectedCount \in Nat /\ recordCount \in Nat /\ tx \in Seq(UbxPacket) /\ calls \in Seq(Call)
  BY DEF Init
<1>. QED
  BY <1>1, <1>2, <1>3 DEF TypeOK

(* Every variable of the driver stays in its type, under any environment.   *)
THEOREM TypeCorrect == Spec => []TypeOK
<1>1. TypeOK /\ [Next]_dlVars => TypeOK'
  <2>. SUFFICES ASSUME TypeOK, [Next]_dlVars PROVE TypeOK'
    OBVIOUS
  <2>1. CASE \E pkt \in Deliverable, ok \in BOOLEAN : OnPacket(pkt, ok)
    BY <2>1, PacketTypeOK, DownloaderAssumptions
  <2>2. CASE UNCHANGED dlVars
    BY <2>2 DEF TypeOK, dlVars
  <2>. QED
    BY <2>1, <2>2, CallTypeOK DEF Next
<1>. QED
  BY <1>1, InitTypeOK, PTL DEF Spec

(* In a finished driver a packet changes no count, hands over no record and *)
(* does not restart the download: every branch that would is guarded by a   *)
(* state of a download under way.                                           *)
LEMMA FinishedIgnoresPackets ==
  ASSUME NEW pkt \in UbxPacket, NEW ok \in BOOLEAN,
         state \in Finished, OnPacket(pkt, ok)
  PROVE  UNCHANGED <<state, counts>> /\ ~HandsOverRecord(calls')
<1>1. ~Announces(pkt) /\ ~Records(pkt) /\ ~Unlocks(pkt) /\ ~Completes(pkt) /\ ~Refuses(pkt)
  BY DEF Finished, Announces, Records, Unlocks, Completes, Refuses
<1>2. CASE ForeignClass(pkt)
  BY <1>2 DEF ForeignClass, HandsOverRecord
<1>3. CASE BoundaryMarked(pkt)
  BY <1>3 DEF BoundaryMarked, HandsOverRecord
<1>4. CASE Ignored(pkt)
  BY <1>4 DEF Ignored, HandsOverRecord
<1>. QED
  BY <1>1, <1>2, <1>3, <1>4
     DEF OnPacket, CountAnnounced, RecordReceived, Unlocked, Completed, Refused

(* A finished download stays finished until begin() is called again.        *)
THEOREM LateAnswersIgnoredHolds == Spec => LateAnswersIgnored
<1>1. [Next]_dlVars =>
        [(state \in Finished /\ ~\E ok \in BOOLEAN : Begin(ok))
           => (UNCHANGED <<state, counts>> /\ ~HandsOverRecord(calls'))]_dlVars
  <2>. SUFFICES ASSUME Next, state \in Finished, ~\E ok \in BOOLEAN : Begin(ok)
                PROVE  UNCHANGED <<state, counts>> /\ ~HandsOverRecord(calls')
    OBVIOUS
  <2>1. CASE \E isSet \in BOOLEAN : SetSecurityCode(isSet)
    BY <2>1 DEF SetSecurityCode, HandsOverRecord
  <2>2. CASE \E ok \in BOOLEAN : EraseMemory(ok)
    BY <2>2 DEF EraseMemory, HandsOverRecord
  <2>3. CASE Update
    BY <2>3 DEF Update, Watched, Finished, HandsOverRecord
  <2>4. CASE \E pkt \in Deliverable, ok \in BOOLEAN : OnPacket(pkt, ok)
    BY <2>4, FinishedIgnoresPackets, DownloaderAssumptions
  <2>5. CASE Tick
    BY <2>5 DEF Tick, HandsOverRecord
  <2>6. CASE Silent
    BY <2>6 DEF Silent, HandsOverRecord
  <2>. QED
    BY <2>1, <2>2, <2>3, <2>4, <2>5, <2>6 DEF Next
<1>. QED
  BY <1>1, PTL DEF Spec, LateAnswersIgnored

------------------------------------------------------------------------------
(* While a silence is shorter than a turn of the clock, the wrapped         *)
(* subtraction measures it exactly; beyond, it can only be too short.       *)
SilenceMeasured ==
  /\ silence \in Nat
  /\ Elapsed(millis, lastRxMs) <= silence
  /\ silence < ClockSize => Elapsed(millis, lastRxMs) = silence

SilenceInv == TypeOK /\ SilenceMeasured

(* Every step keeps the measured silence and lastRxMs in agreement.         *)
LEMMA SilenceStep == SilenceInv /\ [SNext]_silenceVars => SilenceInv'
<1>. SUFFICES ASSUME SilenceInv, [SNext]_silenceVars PROVE SilenceInv'
  OBVIOUS
<1>. USE DEF SilenceInv
<1>1. CASE Heard
  <2>1. millis' = millis /\ lastRxMs' = millis
    <3>1. CASE Begin(TRUE)
      BY <3>1 DEF Begin, SendUnlock, SendDownloadTrigger
    <3>2. ASSUME NEW pkt \in Deliverable, NEW ok \in BOOLEAN,
                 pkt.cls = UBX_CLASS_RACEBOX, OnPacket(pkt, ok)
          PROVE  millis' = millis /\ lastRxMs' = millis
      BY <3>2 DEF OnPacket, ForeignClass, CountAnnounced, RecordReceived, BoundaryMarked,
                  Unlocked, SendDownloadTrigger, Completed, Refused, Ignored
    <3>. QED
      BY <1>1, <3>1, <3>2 DEF Heard
  <2>2. TypeOK'
    BY <1>1, CallTypeOK, PacketTypeOK, DownloaderAssumptions DEF Heard
  <2>3. silence' = 0 /\ Elapsed(millis', lastRxMs') = 0
    BY <1>1, <2>1, TimeLaws DEF Heard, TypeOK
  <2>. QED
    BY <2>2, <2>3 DEF SilenceMeasured
<1>2. CASE NotHeard
  <2>1. UNCHANGED <<millis, lastRxMs, silence>>
    BY <1>2 DEF NotHeard, Begin, SendUnlock, SendDownloadTrigger, SetSecurityCode, EraseMemory,
                Update, OnPacket, ForeignClass
  <2>2. TypeOK'
    BY <1>2, CallTypeOK, PacketTypeOK, DownloaderAssumptions DEF NotHeard
  <2>. QED
    BY <2>1, <2>2 DEF SilenceMeasured
<1>3. CASE TimePasses
  <2>1. millis' = Later(millis) /\ lastRxMs' = lastRxMs /\ silence' = silence + 1
    BY <1>3 DEF TimePasses, Tick
  <2>2. TypeOK'
    BY <1>3, CallTypeOK DEF TimePasses
  <2>3. Elapsed(millis', lastRxMs') =
          IF Elapsed(millis, lastRxMs) + 1 = ClockSize THEN 0 ELSE Elapsed(millis, lastRxMs) + 1
    BY <2>1, ElapsedGrows DEF TypeOK
  <2>4. Elapsed(millis, lastRxMs) \in 0 .. ClockSize - 1
    BY TimeLaws DEF TypeOK
  <2>. QED
    BY <2>1, <2>2, <2>3, <2>4, ClockSizeAssumption DEF SilenceMeasured
<1>4. CASE UNCHANGED silenceVars
  BY <1>4 DEF silenceVars, dlVars, TypeOK, SilenceMeasured
<1>. QED
  BY <1>1, <1>2, <1>3, <1>4 DEF SNext

(* The watchdog ends a download only after a silence longer than TIMEOUT_MS,*)
(* and does end it when polled before a full turn of the clock, for every   *)
(* clock size, limit and environment.                                       *)
THEOREM WatchdogIsExact == SSpec => WatchdogMeasuresSilence
<1>1. SInit => SilenceInv
  <2>. SUFFICES ASSUME SInit PROVE SilenceInv
    OBVIOUS
  <2>1. TypeOK /\ silence = millis /\ lastRxMs = 0
    BY InitTypeOK DEF SInit, Init
  <2>2. Elapsed(millis, lastRxMs) = millis /\ millis \in Nat
    BY <2>1, ClockSizeAssumption DEF TypeOK, Elapsed, Time
  <2>. QED
    BY <2>1, <2>2 DEF SilenceInv, SilenceMeasured
<1>2. SilenceInv /\ [SNext]_silenceVars =>
        [(Update /\ Watched)
           => ((state' # state => silence > TIMEOUT_MS)
               /\ (silence \in (TIMEOUT_MS + 1) .. (ClockSize - 1) => state' \in Finished))]_silenceVars
  <2>. SUFFICES ASSUME SilenceInv, Update, Watched
                PROVE  /\ state' # state => silence > TIMEOUT_MS
                       /\ silence \in (TIMEOUT_MS + 1) .. (ClockSize - 1) => state' \in Finished
    OBVIOUS
  <2>1. Elapsed(millis, lastRxMs) \in Nat
    BY TimeLaws, ClockSizeAssumption DEF SilenceInv, TypeOK
  <2>2. state' # state => TimedOut
    BY DEF Update
  <2>3. TimedOut => state' \in Finished
    BY DEF Update, Finished
  <2>4. TimedOut => silence > TIMEOUT_MS
    BY <2>1, DownloaderAssumptions DEF TimedOut, SilenceInv, SilenceMeasured
  <2>5. silence \in (TIMEOUT_MS + 1) .. (ClockSize - 1) => TimedOut
    BY <2>1, ClockSizeAssumption, DownloaderAssumptions DEF TimedOut, SilenceInv, SilenceMeasured
  <2>. QED
    BY <2>2, <2>3, <2>4, <2>5
<1>. QED
  BY <1>1, <1>2, SilenceStep, PTL DEF SSpec, WatchdogMeasuresSilence

------------------------------------------------------------------------------
(* A session.                                                               *)

IsRecord(pkt) == pkt.id = UBX_ID_HISTORY
IsCount(pkt) == pkt.id = UBX_ID_DOWNLOAD
IsLastAck(pkt) == pkt.id = UBX_ID_ACK /\ pkt.arg = UBX_ID_DOWNLOAD

\* What is in the FIFO was sent by the device, whose memory it is about.
Arrivals ==
  /\ dev.next <= Stored
  /\ \A i \in DOMAIN fifo :
       /\ fifo[i].cls = UBX_CLASS_RACEBOX
       /\ IsCount(fifo[i]) => fifo[i].len = 4
       /\ IsRecord(fifo[i]) => fifo[i].len = RACEBOX_PAYLOAD_LEN /\ fifo[i].arg \in History

\* An unlock ACK and a trigger both mean an unlocked device: the loss that locks it
\* empties the FIFO and the air.
Lock ==
  /\ \A i \in DOMAIN fifo : IsUnlockAck(fifo[i]) => dev.unlocked
  /\ TriggerMeetsUnlockedDevice

\* Before begin() nothing happens.
Quiet ==
  begins = 0 => state = "IDLE" /\ toDev = <<>> /\ fifo = <<>> /\ got = <<>> /\ recordCount = 0
                /\ ~dev.sending /\ ~dev.erased

Begun == begins > 0 => state # "IDLE"

NoTrigger == \A i \in DOMAIN toDev : toDev[i].id # UBX_ID_DOWNLOAD
NoErase == \A i \in DOMAIN toDev : toDev[i].id # UBX_ID_ERASE

\* The trigger is sent once, and until the device reads it nothing of it comes back.
OneTrigger ==
  /\ state \in {"IDLE", "UNLOCKING", "RECEIVING", "DONE"} => NoTrigger
  /\ \A i, j \in DOMAIN toDev :
       toDev[i].id = UBX_ID_DOWNLOAD /\ toDev[j].id = UBX_ID_DOWNLOAD => i = j
  /\ state \in {"IDLE", "UNLOCKING"} \/ ~NoTrigger =>
       /\ ~dev.sending
       /\ got = <<>>
       /\ \A i \in DOMAIN fifo : ~IsCount(fifo[i]) /\ ~IsRecord(fifo[i]) /\ ~IsLastAck(fifo[i])

\* The memory is erased only once the download is done, so the count is that of all records.
Counting ==
  /\ dev.erased \/ ~NoErase => state = "DONE"
  /\ \A i \in DOMAIN fifo : IsCount(fifo[i]) => fifo[i].arg = Stored
  /\ state = "RECEIVING" => expectedCount = Stored
  /\ recordCount = Len(got)

\* The records handed over, those in the FIFO and those still to be sent come in
\* ascending order.
Ascending ==
  /\ \A i \in DOMAIN got : got[i] \in History /\ got[i] >= i - 1
  /\ \A i, j \in DOMAIN got : i < j => got[j] - got[i] >= j - i
  /\ \A i \in DOMAIN fifo : IsRecord(fifo[i]) =>
       /\ \A j \in DOMAIN got : got[j] < fifo[i].arg
       /\ \A j \in DOMAIN fifo : i < j /\ IsRecord(fifo[j]) => fifo[i].arg < fifo[j].arg
       /\ dev.sending => fifo[i].arg < dev.next
  /\ dev.sending => \A j \in DOMAIN got : got[j] < dev.next

\* The count comes before the records, the final ACK after them.
InTurn ==
  \A i, j \in DOMAIN fifo :
    /\ IsCount(fifo[i]) /\ (IsRecord(fifo[j]) \/ IsLastAck(fifo[j])) => i < j
    /\ IsLastAck(fifo[i]) => ~dev.sending /\ (IsRecord(fifo[j]) => j < i)

\* Once the count is there or on its way, every record is accounted for.
Unsent == IF dev.sending THEN dev.next .. Stored - 1 ELSE {}
Accounted ==
  state = "RECEIVING" \/ (state = "REQUESTED" /\ \E i \in DOMAIN fifo : IsCount(fifo[i]))
    => History \subseteq Handed \cup lost \cup Positions(fifo) \cup Unsent

FirstDownload ==
  begins <= 1 =>
    OneTrigger /\ Counting /\ Ascending /\ InTurn /\ Accounted /\ SilentSuccessIsComplete

SessionInv == SessionTypeOK /\ Arrivals /\ Lock /\ Quiet /\ Begun /\ FirstDownload

USE DEF UBX_CLASS_RACEBOX, UBX_ID_ACK, UBX_ID_NACK, UBX_ID_HISTORY, UBX_ID_DOWNLOAD, UBX_ID_ERASE,
        UBX_ID_STATE_CHANGE, UBX_ID_MEM_UNLOCK, RACEBOX_PAYLOAD_LEN

------------------------------------------------------------------------------
(* The FIFO and the air.                                                    *)

(* The types of the session hold those of its link.                         *)
LEMMA LinkTyped == SessionTypeOK => LinkTypeOK
BY DEF SessionTypeOK

(* A notification is put at the back, and what is gone from the front is    *)
(* noted as lost.                                                           *)
LEMMA NotifyArrives ==
  ASSUME SessionTypeOK, NEW pkt \in UbxPacket, Notify(pkt)
  PROVE  \E k : Arrived(pkt, k) /\ lost' = lost \cup Positions(SubSeq(fifo, 1, k))
<1>1. PICK k \in 0 .. MaxMangled : Push(pkt, k) /\ lost' = lost \cup Positions(SubSeq(fifo, 1, k))
  BY DEF Notify
<1>2. Arrived(pkt, k)
  BY <1>1, PushArrives, LinkAssumptions DEF SessionTypeOK
<1>. QED
  BY <1>1, <1>2

(* Every record that was in the FIFO is still there or is noted as lost.    *)
LEMMA PositionsKept ==
  ASSUME SessionTypeOK, NEW pkt \in UbxPacket, NEW k, Arrived(pkt, k)
  PROVE  /\ Positions(fifo) \subseteq Positions(SubSeq(fifo, 1, k)) \cup Positions(fifo')
         /\ IsRecord(pkt) /\ pkt.arg \in History => pkt.arg \in Positions(fifo')
<1>1. fifo \in Seq(UbxPacket) /\ k \in 0 .. Len(fifo)
  BY DEF SessionTypeOK, LinkTypeOK, Arrived
<1>2. SubSeq(fifo, 1, k) \in Seq(UbxPacket) /\ Len(SubSeq(fifo, 1, k)) = k
      /\ \A i \in 1 .. k : SubSeq(fifo, 1, k)[i] = fifo[i]
  BY <1>1
<1>3. ASSUME NEW i \in DOMAIN fifo, fifo[i].id = UBX_ID_HISTORY, fifo[i].arg \in History
      PROVE  fifo[i].arg \in Positions(SubSeq(fifo, 1, k)) \cup Positions(fifo')
  <2>1. CASE i <= k
    BY <1>1, <1>2, <1>3, <2>1 DEF Positions
  <2>2. CASE i > k
    <3>1. i - k \in 1 .. Len(fifo) - k /\ (i - k) + k = i
      BY <1>1, <2>2
    <3>2. i - k \in DOMAIN fifo' /\ i - k < Len(fifo') /\ fifo'[i - k] = fifo[i]
      BY <1>1, <3>1 DEF Arrived
    <3>. QED
      BY <1>3, <3>2 DEF Positions
  <2>. QED
    BY <1>1, <2>1, <2>2
<1>4. Len(fifo') \in DOMAIN fifo' /\ fifo'[Len(fifo')] = pkt
  BY <1>1 DEF Arrived
<1>. QED
  BY <1>3, <1>4 DEF Positions, IsRecord

(* Only the record at the front leaves with it.                             *)
LEMMA PositionsTaken ==
  ASSUME SessionTypeOK, Taken
  PROVE  Positions(fifo) \subseteq Positions(fifo')
                                   \cup (IF IsRecord(fifo[1]) THEN {fifo[1].arg} ELSE {})
<1>1. fifo \in Seq(UbxPacket)
  BY DEF SessionTypeOK, LinkTypeOK
<1>2. ASSUME NEW i \in DOMAIN fifo, fifo[i].id = UBX_ID_HISTORY, fifo[i].arg \in History, i # 1
      PROVE  fifo[i].arg \in Positions(fifo')
  <2>1. i - 1 \in DOMAIN fifo' /\ fifo'[i - 1] = fifo[i]
    BY <1>1, <1>2 DEF Taken
  <2>. QED
    BY <1>2, <2>1 DEF Positions
<1>. QED
  BY <1>2 DEF Positions, IsRecord

(* What the device sends is a packet.                                       *)
LEMMA DevicePackets ==
  /\ \A id \in {UBX_ID_ACK, UBX_ID_NACK}, cmd \in Nat : Packet(id, 2, cmd) \in UbxPacket
  /\ \A n \in Nat : /\ Packet(UBX_ID_DOWNLOAD, 4, n) \in UbxPacket
                     /\ Packet(UBX_ID_HISTORY, RACEBOX_PAYLOAD_LEN, n) \in UbxPacket
  /\ Packet(UBX_ID_STATE_CHANGE, 12, 1) \in UbxPacket
BY DEF Packet, UbxPacket

(* Only a record that parses is handed over.                                *)
LEMMA HandedOver ==
  /\ \A n, r : calls' = <<[fn |-> "onRecord", index |-> n, data |-> r]>>
               => HandsOverRecord(calls') /\ calls'[1].data = r
  /\ \A n, r : calls' = <<[fn |-> "stateChange", index |-> n, data |-> r]>>
               => ~HandsOverRecord(calls')
  /\ calls' = <<>> => ~HandsOverRecord(calls')
BY DEF HandsOverRecord

------------------------------------------------------------------------------
(* Type correctness.                                                        *)

(* What the session observes of a driver's step stays in its type.          *)
LEMMA ObserveType ==
  ASSUME SessionTypeOK, TypeOK', NEW cause \in {"ack", "silence"}, Observe(cause)
  PROVE  got' \in Seq(Nat) /\ doneBy' \in {"none", "ack", "silence"}
<1>1. ASSUME HandsOverRecord(calls') PROVE calls'[1].data \in Nat
  <2>1. calls' \in Seq(Call) /\ DOMAIN calls' # {}
    BY <1>1 DEF HandsOverRecord, TypeOK
  <2>2. calls'[1] \in Call
    BY <2>1
  <2>. QED
    BY <2>2 DEF Call
<1>. QED
  BY <1>1 DEF SessionTypeOK, Observe

(* An application's call leaves one command on the air, or none.            *)
LEMMA CallSends ==
  ASSUME NEW ok,
         \/ Begin(ok) \/ EraseMemory(ok)
         \/ \E isSet \in BOOLEAN : SetSecurityCode(isSet)
  PROVE  tx' \in {<<>>, <<Packet(UBX_ID_MEM_UNLOCK, 4, 0)>>, <<Packet(UBX_ID_DOWNLOAD, 0, 0)>>,
                  <<Packet(UBX_ID_ERASE, 0, 0)>>}
BY DEF Begin, SendUnlock, SendDownloadTrigger, Send, EraseMemory, SetSecurityCode

(* What is on the air stays a sequence of packets.                          *)
LEMMA TransmitType ==
  ASSUME SessionTypeOK, TypeOK', Transmit(tx')
  PROVE  toDev' \in Seq(UbxPacket)
BY DEF SessionTypeOK, LinkTypeOK, TypeOK, Transmit

(* What is in the FIFO stays a sequence of packets.                         *)
LEMMA NotifyType ==
  ASSUME SessionTypeOK, NEW pkt \in UbxPacket, Notify(pkt)
  PROVE  fifo' \in Seq(UbxPacket) /\ lost' \subseteq History
BY NotifyArrives DEF Arrived, Positions, SessionTypeOK

(* The device's steps stay in the types.                                    *)
LEMMA DeviceTypeOK == SessionTypeOK /\ Device => SessionTypeOK'
<1>. SUFFICES ASSUME SessionTypeOK, Device PROVE SessionTypeOK'
  OBVIOUS
<1>1. TypeOK' /\ UNCHANGED <<pc, polled, begins, connected, drops, got, doneBy>>
  BY CallTypeOK DEF Device, DevStep, SessionTypeOK, loopVars
<1>2. /\ fifo \in Seq(UbxPacket) /\ toDev \in Seq(UbxPacket) /\ markers \in Nat
      /\ dev \in [sending : BOOLEAN, next : Nat, unlocked : BOOLEAN, erased : BOOLEAN]
      /\ Stored \in Nat /\ lost \subseteq History
  BY SessionAssumptions DEF SessionTypeOK, LinkTypeOK
<1>3. ASSUME NEW id, Receives(id), toDev' = Tail(toDev)
      PROVE  toDev' \in Seq(UbxPacket)
  BY <1>3, LinkTyped, DeviceReads DEF Read
<1>4. SUFFICES /\ fifo' \in Seq(UbxPacket) /\ toDev' \in Seq(UbxPacket)
               /\ dev' \in [sending : BOOLEAN, next : Nat, unlocked : BOOLEAN, erased : BOOLEAN]
               /\ markers' \in Nat /\ lost' \subseteq History
  BY <1>1 DEF SessionTypeOK, LinkTypeOK
<1>5. CASE DevUnlock
  BY <1>2, <1>3, <1>5, NotifyType, DevicePackets DEF DevUnlock
<1>6. CASE DevDownload
  <2>1. (IF dev.erased THEN 0 ELSE Stored) \in Nat
    BY <1>2
  <2>2. Packet(UBX_ID_DOWNLOAD, 4, IF dev.erased THEN 0 ELSE Stored) \in UbxPacket
    BY <2>1, DevicePackets
  <2>3. Packet(UBX_ID_NACK, 2, UBX_ID_DOWNLOAD) \in UbxPacket
    BY DevicePackets
  <2>4. \E pkt \in UbxPacket : Notify(pkt)
    <3>1. Notify(Packet(UBX_ID_DOWNLOAD, 4, IF dev.erased THEN 0 ELSE Stored))
          \/ Notify(Packet(UBX_ID_NACK, 2, UBX_ID_DOWNLOAD))
      BY <1>6 DEF DevDownload
    <3>. QED
      BY <2>2, <2>3, <3>1
  <2>5. dev' \in [sending : BOOLEAN, next : Nat, unlocked : BOOLEAN, erased : BOOLEAN]
    <3>1. dev' = dev \/ \E n \in Nat : dev' = [dev EXCEPT !.sending = TRUE, !.next = n]
      BY <1>2, <1>6 DEF DevDownload
    <3>. QED
      BY <1>2, <3>1
  <2>6. Receives(UBX_ID_DOWNLOAD) /\ toDev' = Tail(toDev) /\ UNCHANGED markers
    BY <1>6 DEF DevDownload
  <2>. QED
    BY <1>2, <1>3, <2>4, <2>5, <2>6, NotifyType
<1>7. CASE DevErase
  BY <1>2, <1>3, <1>7, NotifyType, DevicePackets DEF DevErase, Idle
<1>8. CASE DevRecord
  <2>1. Packet(UBX_ID_HISTORY, RACEBOX_PAYLOAD_LEN, dev.next) \in UbxPacket
    BY <1>2, DevicePackets
  <2>. QED
    BY <1>2, <1>8, <2>1, NotifyType DEF DevRecord
<1>9. CASE DevStopEarly
  BY <1>2, <1>9 DEF DevStopEarly, History
<1>10. CASE DevMarker
  BY <1>2, <1>10, NotifyType, DevicePackets DEF DevMarker
<1>11. CASE DevComplete
  BY <1>2, <1>11, NotifyType, DevicePackets DEF DevComplete, Idle
<1>. QED
  BY <1>5, <1>6, <1>7, <1>8, <1>9, <1>10, <1>11 DEF Device

(* Every step stays in the types.                                           *)
LEMMA SessionTypeStep == SessionTypeOK /\ [SessionNext]_vars => SessionTypeOK'
<1>. SUFFICES ASSUME SessionTypeOK, [SessionNext]_vars PROVE SessionTypeOK'
  OBVIOUS
<1>1. CASE Dispatch
  <2>1. Taken /\ fifo' \in Seq(UbxPacket)
    BY <1>1, LinkTyped, ExtractTakes DEF Dispatch, Taken
  <2>2. TypeOK'
    <3>1. PICK ok \in Results : OnPacket(Head(fifo), ok)
      BY <1>1 DEF Dispatch
    <3>2. ok \in BOOLEAN /\ Head(fifo) \in UbxPacket
      BY <2>1 DEF Results, Taken
    <3>. QED
      BY <3>1, <3>2, PacketTypeOK DEF SessionTypeOK
  <2>. QED
    BY <1>1, <2>1, <2>2, ObserveType, TransmitType
       DEF Dispatch, Elsewhere, devVars, SessionTypeOK, LinkTypeOK
<1>2. CASE Reconnect
  BY <1>2, CallTypeOK DEF Reconnect, LinkUp, SessionTypeOK, LinkTypeOK, loopVars, devVars, ghosts
<1>3. CASE Watch
  <2>1. TypeOK'
    BY <1>3, CallTypeOK DEF Watch, SessionTypeOK
  <2>. QED
    BY <1>3, <2>1, ObserveType, TransmitType
       DEF Watch, Elsewhere, devVars, SessionTypeOK, LinkTypeOK
<1>4. CASE LoopAgain
  BY <1>4, CallTypeOK DEF LoopAgain, SessionTypeOK, LinkTypeOK, linkVars, devVars, ghosts
<1>5. CASE AppBegin
  <2>1. TypeOK'
    BY <1>5, CallTypeOK DEF AppBegin, SessionTypeOK, Results
  <2>. QED
    BY <1>5, <2>1, TransmitType DEF AppBegin, Elsewhere, devVars, SessionTypeOK, LinkTypeOK
<1>6. CASE AppSetSecurityCode
  <2>1. TypeOK'
    BY <1>6, CallTypeOK DEF AppSetSecurityCode, SessionTypeOK
  <2>. QED
    BY <1>6, <2>1, TransmitType DEF AppSetSecurityCode, Elsewhere, devVars, SessionTypeOK, LinkTypeOK
<1>7. CASE AppErase
  <2>1. TypeOK'
    BY <1>7, CallTypeOK DEF AppErase, SessionTypeOK, Results
  <2>. QED
    BY <1>7, <2>1, TransmitType DEF AppErase, Elsewhere, devVars, SessionTypeOK, LinkTypeOK
<1>8. CASE ClockTick
  BY <1>8, CallTypeOK DEF ClockTick, SessionTypeOK, LinkTypeOK, linkVars, devVars, ghosts
<1>9. CASE Drop
  <2>1. TypeOK'
    BY <1>9, CallTypeOK DEF Drop, SessionTypeOK
  <2>2. lost' \subseteq History
    BY <1>9, SessionAssumptions DEF Drop, SessionTypeOK, Positions, History
  <2>3. dev' \in [sending : BOOLEAN, next : Nat, unlocked : BOOLEAN, erased : BOOLEAN]
    BY <1>9 DEF Drop, Idle, SessionTypeOK
  <2>4. UNCHANGED <<loopVars, markers, got, doneBy>>
    BY <1>9 DEF Drop
  <2>5. LinkTypeOK'
    <3>1. connected' = FALSE /\ drops' = drops + 1 /\ fifo' = <<>> /\ toDev' = <<>>
      BY <1>9 DEF Drop, LinkDown, ClearFifo
    <3>2. drops \in Nat
      BY DEF SessionTypeOK, LinkTypeOK
    <3>3. connected' \in BOOLEAN
      BY <3>1
    <3>4. fifo' \in Seq(UbxPacket) /\ toDev' \in Seq(UbxPacket) /\ drops' \in Nat
      BY <3>1, <3>2
    <3>. QED
      BY <3>3, <3>4 DEF LinkTypeOK
  <2>. QED
    BY <2>1, <2>2, <2>3, <2>4, <2>5 DEF SessionTypeOK, loopVars
<1>10. CASE Device
  BY <1>10, DeviceTypeOK
<1>11. CASE UNCHANGED vars
  BY <1>11 DEF vars, dlVars, linkVars, loopVars, devVars, ghosts, SessionTypeOK, TypeOK, LinkTypeOK
<1>. QED
  BY <1>1, <1>2, <1>3, <1>4, <1>5, <1>6, <1>7, <1>8, <1>9, <1>10, <1>11 DEF SessionNext

------------------------------------------------------------------------------
(* What the steps of the loop and of the application do to the session.     *)

Trigger == Packet(UBX_ID_DOWNLOAD, 0, 0)

\* A dispatched packet the download makes nothing of, or a refusal.
Passed ==
  /\ \/ state' = state
     \/ state \in {"UNLOCKING", "REQUESTED"} /\ state' = "ERROR"
  /\ IsRecord(fifo[1]) => state # "RECEIVING"
  /\ UNCHANGED <<expectedCount, recordCount, got, toDev, doneBy>>

CountTaken ==
  /\ IsCount(fifo[1])
  /\ state = "REQUESTED" /\ state' = "RECEIVING"
  /\ expectedCount' = fifo[1].arg
  /\ UNCHANGED <<recordCount, got, toDev, doneBy>>

RecordTaken ==
  /\ IsRecord(fifo[1])
  /\ state = "RECEIVING" /\ state' = state
  /\ recordCount' = recordCount + 1
  /\ got' = Append(got, fifo[1].arg)
  /\ UNCHANGED <<expectedCount, toDev, doneBy>>

UnlockTaken ==
  /\ IsUnlockAck(fifo[1])
  /\ state = "UNLOCKING" /\ state' \in {"REQUESTED", "ERROR"}
  /\ Aired(Trigger) /\ (state' = "ERROR" => toDev' = toDev)
  /\ UNCHANGED <<expectedCount, recordCount, got, doneBy>>

LastTaken ==
  /\ IsLastAck(fifo[1])
  /\ state = "RECEIVING" /\ state' = "DONE"
  /\ doneBy' = "ack"
  /\ UNCHANGED <<expectedCount, recordCount, got, toDev>>

(* One packet handled: it is passed over, or it is the count, a record, the *)
(* unlock's ACK or the final ACK.                                           *)
LEMMA DispatchCases ==
  ASSUME SessionTypeOK, Arrivals, Dispatch
  PROVE  /\ Taken
         /\ UNCHANGED <<connected, drops, dev, markers, lost, begins, hasSecurityCode>>
         /\ Passed \/ CountTaken \/ RecordTaken \/ UnlockTaken \/ LastTaken
<1>1. /\ Taken /\ Head(fifo) = fifo[1]
      /\ fifo[1] \in UbxPacket /\ fifo[1].cls = UBX_CLASS_RACEBOX
      /\ IsRecord(fifo[1]) => fifo[1].len = RACEBOX_PAYLOAD_LEN
  BY ExtractTakes DEF Dispatch, Taken, Arrivals, SessionTypeOK, LinkTypeOK
<1>2. PICK ok \in Results : OnPacket(fifo[1], ok)
  BY <1>1 DEF Dispatch
<1>3. Transmit(tx') /\ Observe("ack") /\ UNCHANGED <<connected, drops, dev, markers, lost, begins>>
  BY DEF Dispatch, Elsewhere, devVars
<1>4. UNCHANGED hasSecurityCode
  BY <1>2 DEF OnPacket
<1>5. ~HandsOverRecord(calls') /\ state' # "DONE" => UNCHANGED <<got, doneBy>>
  BY <1>3 DEF Observe
<1>6. CASE CountAnnounced(fifo[1])
  <2>1. ~HandsOverRecord(calls') /\ toDev' = toDev
    BY <1>3, <1>6, HandedOver, LinkTyped, TransmitNothing DEF CountAnnounced
  <2>. QED
    BY <1>1, <1>3, <1>4, <1>5, <1>6, <2>1 DEF CountAnnounced, Announces, CountTaken, IsCount
<1>7. CASE RecordReceived(fifo[1])
  <2>1. Parses(fifo[1]) /\ IsRecord(fifo[1]) /\ state = "RECEIVING" /\ state' = state
    BY <1>1, <1>7 DEF RecordReceived, Records, Parses, IsRecord
  <2>2. /\ calls' = <<[fn |-> "onRecord", index |-> recordCount, data |-> fifo[1].arg]>>
        /\ recordCount' = recordCount + 1 /\ tx' = <<>> /\ UNCHANGED expectedCount
    BY <1>7, <2>1 DEF RecordReceived
  <2>3. HandsOverRecord(calls') /\ calls'[1].data = fifo[1].arg /\ toDev' = toDev
    BY <1>3, <2>2, HandedOver, LinkTyped, TransmitNothing
  <2>4. got' = Append(got, fifo[1].arg) /\ doneBy' = doneBy
    BY <1>3, <2>1, <2>3 DEF Observe
  <2>. QED
    BY <1>1, <1>3, <1>4, <2>1, <2>2, <2>3, <2>4 DEF RecordTaken
<1>8. CASE BoundaryMarked(fifo[1])
  <2>1. ~HandsOverRecord(calls') /\ toDev' = toDev
    BY <1>3, <1>8, HandedOver, LinkTyped, TransmitNothing DEF BoundaryMarked
  <2>. QED
    BY <1>1, <1>3, <1>4, <1>8, <2>1 DEF BoundaryMarked, Marks, Passed, IsRecord, counts, Observe
<1>9. CASE Unlocked(fifo[1], ok)
  <2>1. IsUnlockAck(fifo[1]) /\ state = "UNLOCKING"
    BY <1>9 DEF Unlocked, Unlocks, Answers, IsUnlockAck
  <2>2. /\ \/ tx' = <<Trigger>> /\ state' = "REQUESTED"
           \/ tx' = <<>> /\ state' = "ERROR"
        /\ calls' = <<>> /\ UNCHANGED <<expectedCount, recordCount>>
    <3>1. SendDownloadTrigger(millis, ok) /\ calls' = <<>> /\ UNCHANGED <<expectedCount, recordCount>>
      BY <1>9 DEF Unlocked, counts
    <3>. QED
      BY <3>1 DEF SendDownloadTrigger, Send, Trigger
  <2>3. Trigger \in UbxPacket
    BY DEF Trigger, Packet, UbxPacket
  <2>4. Aired(Trigger) /\ (state' = "ERROR" => toDev' = toDev)
    BY <1>3, <2>2, <2>3, LinkTyped, TransmitAirs, TransmitNothing
  <2>. QED
    BY <1>1, <1>3, <1>4, <1>5, <2>1, <2>2, <2>4, HandedOver DEF UnlockTaken
<1>10. CASE Completed(fifo[1])
  <2>1. ~HandsOverRecord(calls') /\ toDev' = toDev
    BY <1>3, <1>10, HandedOver, LinkTyped, TransmitNothing DEF Completed
  <2>. QED
    BY <1>1, <1>3, <1>4, <1>10, <2>1
       DEF Completed, Completes, Answers, LastTaken, IsLastAck, counts, Observe
<1>11. CASE Refused(fifo[1])
  <2>1. ~HandsOverRecord(calls') /\ toDev' = toDev
    BY <1>3, <1>11, HandedOver, LinkTyped, TransmitNothing DEF Refused
  <2>. QED
    BY <1>1, <1>3, <1>4, <1>5, <1>11, <2>1 DEF Refused, Refuses, Passed, IsRecord, counts
<1>12. CASE Ignored(fifo[1])
  <2>1. ~HandsOverRecord(calls') /\ toDev' = toDev
    BY <1>3, <1>12, HandedOver, LinkTyped, TransmitNothing DEF Ignored
  <2>2. IsRecord(fifo[1]) => state # "RECEIVING"
    <3>1. HasRecordCallback
      BY SessionAssumptions
    <3>2. ~Records(fifo[1])
      BY <1>12 DEF Ignored
    <3>. QED
      BY <3>1, <3>2 DEF Records, IsRecord
  <2>. QED
    BY <1>1, <1>3, <1>4, <1>12, <2>1, <2>2 DEF Ignored, Passed, counts, Observe
<1>. QED
  BY <1>1, <1>2, <1>6, <1>7, <1>8, <1>9, <1>10, <1>11, <1>12 DEF OnPacket, ForeignClass

\* What the watchdog makes of the download.
LEMMA WatchCases ==
  ASSUME SessionTypeOK, Watch
  PROVE  /\ UNCHANGED <<linkVars, dev, markers, lost, begins, hasSecurityCode,
                        expectedCount, recordCount, got>>
         /\ \/ state' = state /\ doneBy' = doneBy
            \/ state \in {"REQUESTED", "RECEIVING"} /\ state' = "ERROR" /\ doneBy' = doneBy
            \/ AllReceived /\ state' = "DONE"
<1>1. tx' = <<>> /\ calls' = <<>> /\ UNCHANGED <<expectedCount, recordCount, hasSecurityCode>>
  BY DEF Watch, Update, counts
<1>2. ~HandsOverRecord(calls') /\ toDev' = toDev
  BY <1>1, HandedOver, LinkTyped, TransmitNothing DEF Watch
<1>3. got' = got /\ doneBy' = IF state # "DONE" /\ state' = "DONE" THEN "silence" ELSE doneBy
  BY <1>2 DEF Watch, Observe
<1>4. \/ state' = state
      \/ Watched /\ AllReceived /\ state' = "DONE"
      \/ Watched /\ state' = "ERROR"
  BY DEF Watch, Update
<1>. QED
  BY <1>1, <1>2, <1>3, <1>4 DEF Watch, Elsewhere, devVars, linkVars, Watched

(* begin() asks the device, and hands over nothing.                         *)
LEMMA BeginCases ==
  ASSUME SessionTypeOK, AppBegin
  PROVE  /\ UNCHANGED <<connected, fifo, drops, dev, markers, lost, hasSecurityCode,
                        expectedCount, recordCount, doneBy>>
         /\ begins' = begins + 1 /\ got' = <<>>
         /\ \/ hasSecurityCode /\ state' = "UNLOCKING" /\ Aired(Packet(UBX_ID_MEM_UNLOCK, 4, 0))
            \/ ~hasSecurityCode /\ state' = "REQUESTED" /\ Aired(Trigger)
            \/ state' = "ERROR" /\ toDev' = toDev
<1>1. PICK ok \in Results : Begin(ok)
  BY DEF AppBegin
<1>2. Transmit(tx')
  BY DEF AppBegin
<1>3. Trigger \in UbxPacket /\ Packet(UBX_ID_MEM_UNLOCK, 4, 0) \in UbxPacket
  BY DEF Trigger, Packet, UbxPacket
<1>4. \/ hasSecurityCode /\ state' = "UNLOCKING" /\ tx' = <<Packet(UBX_ID_MEM_UNLOCK, 4, 0)>>
      \/ ~hasSecurityCode /\ state' = "REQUESTED" /\ tx' = <<Trigger>>
      \/ state' = "ERROR" /\ tx' = <<>>
  BY <1>1 DEF Begin, SendUnlock, SendDownloadTrigger, Send, Trigger
<1>5. UNCHANGED <<expectedCount, recordCount, hasSecurityCode>>
  BY <1>1 DEF Begin, counts
<1>. QED
  BY <1>2, <1>3, <1>4, <1>5, LinkTyped, TransmitAirs, TransmitNothing DEF AppBegin, Elsewhere, devVars

(* The erase is sent once the download is done, onto an empty air.          *)
LEMMA EraseCases ==
  ASSUME SessionTypeOK, AppErase
  PROVE  /\ UNCHANGED <<connected, fifo, drops, dev, markers, lost, hasSecurityCode,
                        state, expectedCount, recordCount, doneBy, begins, got>>
         /\ state = "DONE" /\ toDev = <<>>
         /\ Aired(Packet(UBX_ID_ERASE, 0, 0))
<1>1. PICK ok \in Results : EraseMemory(ok)
  BY DEF AppErase
<1>2. Packet(UBX_ID_ERASE, 0, 0) \in UbxPacket
  BY DEF Packet, UbxPacket
<1>3. Transmit(tx')
  BY DEF AppErase
<1>4. tx' = <<Packet(UBX_ID_ERASE, 0, 0)>> \/ tx' = <<>>
  BY <1>1 DEF EraseMemory, Send
<1>5. UNCHANGED <<state, expectedCount, recordCount, hasSecurityCode>>
  BY <1>1 DEF EraseMemory, counts
<1>. QED
  BY <1>2, <1>3, <1>4, <1>5, LinkTyped, TransmitAirs DEF AppErase, Elsewhere, devVars

------------------------------------------------------------------------------
(* Dispatching a packet keeps the invariant.                                *)

\* What is in the FIFO after a packet was taken was there before, one place on.
LEMMA TakenArrivals ==
  ASSUME SessionTypeOK, Arrivals, Taken, UNCHANGED dev
  PROVE  Arrivals'
BY DEF SessionTypeOK, LinkTypeOK, Arrivals, Taken, IsCount, IsRecord

(* A packet taken off the FIFO leaves the order of the records as it was.   *)
LEMMA TakenAscending ==
  ASSUME Ascending, Taken, UNCHANGED <<dev, got>>
  PROVE  Ascending'
<1>1. ASSUME NEW i \in DOMAIN fifo', IsRecord(fifo'[i])
      PROVE  /\ \A j \in DOMAIN got : got[j] < fifo'[i].arg
             /\ \A j \in DOMAIN fifo' : i < j /\ IsRecord(fifo'[j]) => fifo'[i].arg < fifo'[j].arg
             /\ dev.sending => fifo'[i].arg < dev.next
  <2>1. i \in Nat /\ i + 1 \in DOMAIN fifo /\ fifo'[i] = fifo[i + 1]
    BY DEF Taken
  <2>2. IsRecord(fifo[i + 1])
    BY <1>1, <2>1
  <2>3. ASSUME NEW j \in DOMAIN fifo', i < j, IsRecord(fifo'[j])
        PROVE  fifo'[i].arg < fifo'[j].arg
    <3>1. j + 1 \in DOMAIN fifo /\ fifo'[j] = fifo[j + 1] /\ i + 1 < j + 1
      BY <2>1, <2>3 DEF Taken
    <3>. QED
      BY <2>1, <2>2, <2>3, <3>1 DEF Ascending
  <2>. QED
    BY <2>1, <2>2, <2>3 DEF Ascending
<1>. QED
  BY <1>1 DEF Ascending

(* An ascending history stays one when a later record is put to it.         *)
LEMMA AscendingAppend ==
  ASSUME NEW s \in Seq(Nat), NEW r \in Nat,
         \A i \in DOMAIN s : s[i] >= i - 1 /\ s[i] < r,
         \A i, j \in DOMAIN s : i < j => s[j] - s[i] >= j - i
  PROVE  LET t == Append(s, r)
         IN  /\ \A i \in DOMAIN t : t[i] >= i - 1
             /\ \A i, j \in DOMAIN t : i < j => t[j] - t[i] >= j - i
<1>. DEFINE n == Len(s)
            t == Append(s, r)
<1>1. /\ n \in Nat /\ DOMAIN s = 1 .. n /\ DOMAIN t = 1 .. n + 1 /\ t[n + 1] = r
      /\ \A i \in 1 .. n : t[i] = s[i] /\ s[i] \in Nat
  OBVIOUS
<1>2. /\ \A i \in 1 .. n : s[i] >= i - 1 /\ s[i] < r
      /\ \A i, j \in 1 .. n : i < j => s[j] - s[i] >= j - i
  BY <1>1
<1>. HIDE DEF n, t
<1>3. r >= n
  <2>1. CASE n > 0
    BY <1>1, <1>2, <2>1
  <2>. QED
    BY <1>1, <2>1
<1>4. \A i \in 1 .. n : r - s[i] >= n + 1 - i
  <2>. SUFFICES ASSUME NEW i \in 1 .. n PROVE r - s[i] >= n + 1 - i
    OBVIOUS
  <2>1. s[n] \in Nat /\ s[i] \in Nat /\ s[n] < r /\ (i < n => s[n] - s[i] >= n - i)
    BY <1>1, <1>2
  <2>2. CASE i = n
    BY <1>1, <2>1, <2>2
  <2>3. CASE i < n
    <3>1. \A a, b, c \in Nat : a < b /\ a - c >= n - i => b - c >= n + 1 - i
      BY <1>1
    <3>. QED
      BY <2>1, <2>3, <3>1
  <2>. QED
    BY <1>1, <2>2, <2>3
<1>5. ASSUME NEW i \in 1 .. n + 1 PROVE t[i] >= i - 1
  <2>1. CASE i = n + 1
    BY <1>1, <1>3, <2>1
  <2>2. CASE i \in 1 .. n
    BY <1>1, <1>2, <2>2
  <2>. QED
    BY <1>1, <2>1, <2>2
<1>6. ASSUME NEW i \in 1 .. n + 1, NEW j \in 1 .. n + 1, i < j
      PROVE  t[j] - t[i] >= j - i
  <2>1. i \in 1 .. n /\ t[i] = s[i]
    BY <1>1, <1>6
  <2>2. CASE j = n + 1
    BY <1>1, <1>4, <2>1, <2>2
  <2>3. CASE j \in 1 .. n
    <3>1. t[j] = s[j] /\ s[j] - s[i] >= j - i
      BY <1>1, <1>2, <1>6, <2>1, <2>3
    <3>. QED
      BY <2>1, <3>1
  <2>. QED
    BY <1>1, <2>2, <2>3
<1>. QED
  BY <1>1, <1>5, <1>6 DEF t

(* Handling a packet sends a trigger only upon the ACK of an unlock.        *)
LEMMA DispatchLock ==
  ASSUME SessionInv, Dispatch
  PROVE  Lock'
<1>0. SessionTypeOK /\ Arrivals
  BY DEF SessionInv
<1>1. /\ Taken /\ UNCHANGED <<dev, hasSecurityCode>>
      /\ toDev' = toDev \/ (IsUnlockAck(fifo[1]) /\ Aired(Trigger))
  <2>1. Taken /\ UNCHANGED <<dev, hasSecurityCode>>
        /\ (Passed \/ CountTaken \/ RecordTaken \/ UnlockTaken \/ LastTaken)
    BY <1>0, DispatchCases
  <2>. QED
    BY <2>1 DEF Passed, CountTaken, RecordTaken, UnlockTaken, LastTaken
<1>2. IsUnlockAck(fifo[1]) => dev.unlocked
  BY <1>1 DEF SessionInv, SessionTypeOK, LinkTypeOK, Lock, Taken
<1>3. \A i \in DOMAIN fifo' : IsUnlockAck(fifo'[i]) => dev'.unlocked
  BY <1>1 DEF SessionInv, SessionTypeOK, LinkTypeOK, Lock, Taken
<1>4. \A i \in DOMAIN toDev' : toDev'[i].id = UBX_ID_DOWNLOAD /\ hasSecurityCode => dev.unlocked
  BY <1>1, <1>2 DEF SessionInv, Lock, TriggerMeetsUnlockedDevice, Aired
<1>. QED
  BY <1>1, <1>3, <1>4 DEF Lock, TriggerMeetsUnlockedDevice, IsUnlockAck

(* First download: a packet passed over, or a refusal.                      *)
LEMMA DispatchPassed ==
  ASSUME SessionInv, begins <= 1, Taken, UNCHANGED <<dev, lost, begins>>, Passed
  PROVE  FirstDownload'
<1>1. fifo \in Seq(UbxPacket) /\ OneTrigger /\ Counting /\ Ascending /\ InTurn /\ Accounted
      /\ SilentSuccessIsComplete
  BY DEF SessionInv, FirstDownload, SessionTypeOK, LinkTypeOK
<1>2. OneTrigger'
  BY <1>1 DEF OneTrigger, NoTrigger, Taken, Passed, IsCount, IsRecord, IsLastAck
<1>3. Counting'
  BY <1>1 DEF Counting, NoErase, Taken, Passed, IsCount
<1>4. Ascending'
  BY <1>1, TakenAscending DEF Passed
<1>5. InTurn'
  BY <1>1 DEF InTurn, Taken, IsRecord, IsCount, IsLastAck
<1>6. Accounted'
  <2>. SUFFICES ASSUME state' = "RECEIVING" \/ (state' = "REQUESTED" /\ \E i \in DOMAIN fifo' : IsCount(fifo'[i]))
                PROVE  History \subseteq Handed' \cup lost \cup Positions(fifo') \cup Unsent'
    BY DEF Accounted
  <2>1. state' = state /\ got' = got
    BY DEF Passed
  <2>2. state = "RECEIVING" \/ (state = "REQUESTED" /\ \E i \in 2 .. Len(fifo) : IsCount(fifo[i]))
    BY <1>1, <2>1 DEF Taken, IsCount
  <2>3. ~IsRecord(fifo[1])
    BY <1>1, <2>2 DEF Passed, InTurn, Taken
  <2>4. History \subseteq Handed \cup lost \cup Positions(fifo) \cup Unsent
    BY <1>1, <2>2 DEF Accounted
  <2>5. Positions(fifo) \subseteq Positions(fifo')
    BY <2>3, PositionsTaken DEF SessionInv
  <2>. QED
    BY <2>1, <2>4, <2>5 DEF Handed, Unsent
<1>7. SilentSuccessIsComplete'
  BY <1>1 DEF SilentSuccessIsComplete, Passed, Handed
<1>. QED
  BY <1>2, <1>3, <1>4, <1>5, <1>6, <1>7 DEF FirstDownload

(* First download: the count begins the records.                            *)
LEMMA DispatchCount ==
  ASSUME SessionInv, begins <= 1, Taken, UNCHANGED <<dev, lost, begins>>, CountTaken
  PROVE  FirstDownload'
<1>1. fifo \in Seq(UbxPacket) /\ OneTrigger /\ Counting /\ Ascending /\ InTurn /\ Accounted
      /\ SilentSuccessIsComplete
  BY DEF SessionInv, FirstDownload, SessionTypeOK, LinkTypeOK
<1>2. OneTrigger'
  <2>1. NoTrigger
    BY <1>1 DEF OneTrigger, Taken, CountTaken
  <2>. QED
    BY <2>1 DEF OneTrigger, NoTrigger, CountTaken
<1>3. Counting'
  BY <1>1 DEF Counting, NoErase, Taken, CountTaken, IsCount
<1>4. Ascending'
  BY <1>1, TakenAscending DEF CountTaken
<1>5. InTurn'
  BY <1>1 DEF InTurn, Taken, IsRecord, IsCount, IsLastAck
<1>6. Accounted'
  <2>1. History \subseteq Handed \cup lost \cup Positions(fifo) \cup Unsent
    BY <1>1 DEF Accounted, CountTaken, Taken
  <2>2. Positions(fifo) \subseteq Positions(fifo')
    BY PositionsTaken DEF SessionInv, CountTaken, IsRecord, IsCount
  <2>. QED
    BY <2>1, <2>2 DEF Accounted, CountTaken, Handed, Unsent
<1>7. SilentSuccessIsComplete'
  BY DEF SilentSuccessIsComplete, CountTaken
<1>. QED
  BY <1>2, <1>3, <1>4, <1>5, <1>6, <1>7 DEF FirstDownload

(* First download: a record goes from the FIFO to the application.          *)
LEMMA DispatchRecord ==
  ASSUME SessionInv, begins <= 1, Taken, UNCHANGED <<dev, lost, begins>>, RecordTaken
  PROVE  FirstDownload'
<1>1. fifo \in Seq(UbxPacket) /\ OneTrigger /\ Counting /\ Ascending /\ InTurn /\ Accounted
      /\ got \in Seq(Nat) /\ Stored \in Nat /\ recordCount \in Nat
      /\ dev.next \in Nat
  BY SessionAssumptions DEF SessionInv, FirstDownload, SessionTypeOK, LinkTypeOK, TypeOK
<1>. DEFINE r == fifo[1].arg
            n == Len(got)
<1>2. r \in History /\ r \in Nat
  BY <1>1 DEF SessionInv, Arrivals, Taken, RecordTaken, History
<1>3. /\ n \in Nat /\ DOMAIN got = 1 .. n
      /\ got' = Append(got, r) /\ got' \in Seq(Nat) /\ Len(got') = n + 1
      /\ DOMAIN got' = 1 .. n + 1 /\ got'[n + 1] = r
      /\ \A i \in DOMAIN got : got'[i] = got[i]
  BY <1>1, <1>2 DEF RecordTaken
<1>4. \A j \in DOMAIN got : got[j] < r
  BY <1>1 DEF Ascending, Taken, RecordTaken
<1>. HIDE DEF n
<1>5. OneTrigger'
  BY <1>1 DEF OneTrigger, NoTrigger, Taken, RecordTaken, IsCount, IsRecord, IsLastAck
<1>6. Counting'
  BY <1>1, <1>3 DEF Counting, NoErase, Taken, RecordTaken, IsCount, n
<1>7. Ascending'
  <2>1. /\ \A i \in DOMAIN got' : got'[i] >= i - 1
        /\ \A i, j \in DOMAIN got' : i < j => got'[j] - got'[i] >= j - i
    <3>1. /\ \A i \in DOMAIN got : got[i] >= i - 1 /\ got[i] < r
          /\ \A i, j \in DOMAIN got : i < j => got[j] - got[i] >= j - i
      BY <1>1, <1>4 DEF Ascending
    <3>. QED
      BY <1>1, <1>2, <1>3, <3>1, AscendingAppend
  <2>2. \A i \in DOMAIN got' : got'[i] \in History
    BY <1>1, <1>2, <1>3 DEF Ascending
  <2>3. ASSUME NEW i \in DOMAIN fifo', IsRecord(fifo'[i])
        PROVE  /\ \A j \in DOMAIN got' : got'[j] < fifo'[i].arg
               /\ \A j \in DOMAIN fifo' : i < j /\ IsRecord(fifo'[j]) => fifo'[i].arg < fifo'[j].arg
               /\ dev.sending => fifo'[i].arg < dev.next
    <3>1. /\ i \in Nat /\ i + 1 \in DOMAIN fifo /\ 1 < i + 1 /\ 1 \in DOMAIN fifo
          /\ fifo'[i] = fifo[i + 1]
      BY DEF Taken
    <3>2. IsRecord(fifo[i + 1]) /\ IsRecord(fifo[1])
      BY <2>3, <3>1 DEF RecordTaken
    <3>3. r < fifo[i + 1].arg /\ \A j \in DOMAIN got : got[j] < fifo[i + 1].arg
      BY <1>1, <3>1, <3>2 DEF Ascending
    <3>4. ASSUME NEW j \in DOMAIN fifo', i < j, IsRecord(fifo'[j])
          PROVE  fifo'[i].arg < fifo'[j].arg
      <4>1. j + 1 \in DOMAIN fifo /\ fifo'[j] = fifo[j + 1] /\ i + 1 < j + 1
        BY <3>1, <3>4 DEF Taken
      <4>. QED
        BY <1>1, <3>1, <3>2, <3>4, <4>1 DEF Ascending
    <3>5. dev.sending => fifo'[i].arg < dev.next
      BY <1>1, <3>1, <3>2 DEF Ascending
    <3>6. \A j \in DOMAIN got' : got'[j] < fifo'[i].arg
      BY <1>3, <3>1, <3>3
    <3>. QED
      BY <3>4, <3>5, <3>6
  <2>4. dev.sending => \A j \in DOMAIN got' : got'[j] < dev.next
    <3>1. dev.sending => r < dev.next /\ \A j \in DOMAIN got : got[j] < dev.next
      BY <1>1 DEF Ascending, Taken, RecordTaken
    <3>. QED
      BY <1>3, <3>1
  <2>. QED
    BY <2>1, <2>2, <2>3, <2>4 DEF Ascending
<1>8. InTurn'
  BY <1>1 DEF InTurn, Taken, IsRecord, IsCount, IsLastAck
<1>9. Accounted'
  <2>1. History \subseteq Handed \cup lost \cup Positions(fifo) \cup Unsent
    BY <1>1 DEF Accounted, RecordTaken
  <2>2. Positions(fifo) \subseteq Positions(fifo') \cup {r}
    BY PositionsTaken DEF SessionInv, RecordTaken
  <2>3. Handed' = Handed \cup {r}
    BY <1>1, <1>3 DEF Handed
  <2>. QED
    BY <2>1, <2>2, <2>3 DEF Accounted, Unsent
<1>10. SilentSuccessIsComplete'
  BY DEF SilentSuccessIsComplete, RecordTaken
<1>. QED
  BY <1>5, <1>6, <1>7, <1>8, <1>9, <1>10 DEF FirstDownload

(* First download: the unlock's ACK sends the one trigger.                  *)
LEMMA DispatchUnlock ==
  ASSUME SessionInv, begins <= 1, Taken, UNCHANGED <<dev, lost, begins>>, UnlockTaken
  PROVE  FirstDownload'
<1>1. fifo \in Seq(UbxPacket) /\ OneTrigger /\ Counting /\ Ascending /\ InTurn
  BY DEF SessionInv, FirstDownload, SessionTypeOK, LinkTypeOK
<1>2. /\ NoTrigger /\ ~dev.sending /\ got = <<>> /\ state = "UNLOCKING"
      /\ \A i \in DOMAIN fifo : ~IsCount(fifo[i]) /\ ~IsRecord(fifo[i]) /\ ~IsLastAck(fifo[i])
      /\ ~dev.erased /\ NoErase /\ recordCount = Len(got)
  BY <1>1 DEF OneTrigger, Counting, UnlockTaken
<1>3. \A i \in DOMAIN fifo' : ~IsCount(fifo'[i]) /\ ~IsRecord(fifo'[i]) /\ ~IsLastAck(fifo'[i])
  BY <1>2 DEF Taken
<1>4. OneTrigger'
  <2>1. \A i, j \in DOMAIN toDev' :
          toDev'[i].id = UBX_ID_DOWNLOAD /\ toDev'[j].id = UBX_ID_DOWNLOAD => i = j
    BY <1>2 DEF UnlockTaken, Aired, NoTrigger
  <2>. QED
    BY <1>2, <1>3, <2>1 DEF OneTrigger, UnlockTaken
<1>5. Counting'
  <2>1. NoErase'
    BY <1>2 DEF UnlockTaken, Aired, NoErase, Trigger, Packet
  <2>. QED
    BY <1>2, <1>3, <2>1 DEF Counting, UnlockTaken
<1>6. Ascending'
  BY <1>1, TakenAscending DEF UnlockTaken
<1>7. InTurn'
  BY <1>3 DEF InTurn
<1>8. Accounted' /\ SilentSuccessIsComplete'
  BY <1>3 DEF Accounted, SilentSuccessIsComplete, UnlockTaken
<1>. QED
  BY <1>4, <1>5, <1>6, <1>7, <1>8 DEF FirstDownload

(* First download: the final ACK ends the records.                          *)
LEMMA DispatchLast ==
  ASSUME SessionInv, begins <= 1, Taken, UNCHANGED <<dev, lost, begins>>, LastTaken
  PROVE  FirstDownload'
<1>1. fifo \in Seq(UbxPacket) /\ OneTrigger /\ Counting /\ Ascending /\ InTurn
  BY DEF SessionInv, FirstDownload, SessionTypeOK, LinkTypeOK
<1>2. NoTrigger /\ NoTrigger'
  BY <1>1 DEF OneTrigger, NoTrigger, LastTaken
<1>3. OneTrigger'
  BY <1>2 DEF OneTrigger, NoTrigger, LastTaken
<1>4. Counting'
  BY <1>1 DEF Counting, Taken, LastTaken
<1>5. Ascending'
  BY <1>1, TakenAscending DEF LastTaken
<1>6. InTurn'
  BY <1>1 DEF InTurn, Taken
<1>7. Accounted' /\ SilentSuccessIsComplete'
  BY DEF Accounted, SilentSuccessIsComplete, LastTaken
<1>. QED
  BY <1>3, <1>4, <1>5, <1>6, <1>7 DEF FirstDownload

(* The loop's handling of a packet keeps the invariant.                     *)
LEMMA DispatchStep == SessionInv /\ Dispatch => SessionInv'
<1>. SUFFICES ASSUME SessionInv, Dispatch PROVE SessionInv'
  OBVIOUS
<1>1. SessionTypeOK /\ Arrivals /\ Quiet /\ Begun
  BY DEF SessionInv
<1>2. /\ Taken
      /\ UNCHANGED <<connected, drops, dev, markers, lost, begins, hasSecurityCode>>
      /\ Passed \/ CountTaken \/ RecordTaken \/ UnlockTaken \/ LastTaken
  BY <1>1, DispatchCases
<1>3. SessionTypeOK'
  BY <1>1, SessionTypeStep DEF SessionNext
<1>4. Arrivals' /\ Lock'
  BY <1>1, <1>2, TakenArrivals, DispatchLock
<1>5. Quiet'
  BY <1>1, <1>2 DEF Quiet, Dispatch
<1>6. Begun'
  BY <1>1, <1>2 DEF Begun, Passed, CountTaken, RecordTaken, UnlockTaken, LastTaken
<1>7. FirstDownload'
  <2>1. CASE begins <= 1
    BY <1>2, <2>1, DispatchPassed, DispatchCount, DispatchRecord, DispatchUnlock, DispatchLast
  <2>2. CASE ~(begins <= 1)
    BY <1>2, <2>2 DEF FirstDownload
  <2>. QED
    BY <2>1, <2>2
<1>. QED
  BY <1>3, <1>4, <1>5, <1>6, <1>7 DEF SessionInv

------------------------------------------------------------------------------
(* The watchdog and the application keep the invariant.                     *)

(* A step that changes nothing of a download.                               *)
LEMMA StillStep ==
  ASSUME SessionInv, SessionTypeOK',
         UNCHANGED <<state, expectedCount, recordCount, hasSecurityCode, fifo, toDev, dev, got,
                     lost, begins, doneBy>>
  PROVE  SessionInv'
<1>1. Arrivals' /\ Lock' /\ Quiet' /\ Begun'
  BY DEF SessionInv, Arrivals, Lock, TriggerMeetsUnlockedDevice, Quiet, Begun
<1>2. ASSUME begins' <= 1 PROVE FirstDownload'
  <2>1. OneTrigger /\ Counting /\ Ascending /\ InTurn /\ Accounted /\ SilentSuccessIsComplete
    BY <1>2 DEF SessionInv, FirstDownload
  <2>2. OneTrigger' /\ Counting'
    BY <2>1 DEF OneTrigger, Counting, NoTrigger, NoErase
  <2>3. Ascending' /\ InTurn'
    BY <2>1 DEF Ascending, InTurn
  <2>4. Accounted' /\ SilentSuccessIsComplete'
    BY <2>1 DEF Accounted, SilentSuccessIsComplete, Unsent, Handed
  <2>. QED
    BY <2>2, <2>3, <2>4 DEF FirstDownload
<1>. QED
  BY <1>1, <1>2 DEF SessionInv, FirstDownload

(* Records handed over in ascending order, as many as there are, are all.   *)
LEMMA AllHanded ==
  ASSUME SessionTypeOK, Ascending, Stored \in Nat, Len(got) >= Stored
  PROVE  Handed = History
<1>1. got \in Seq(Nat) /\ DOMAIN got = 1 .. Len(got) /\ Len(got) \in Nat
  BY DEF SessionTypeOK
<1>2. \A i \in 1 .. Len(got) : got[i] \in History /\ got[i] >= i - 1 /\ got[i] \in Nat
  BY <1>1 DEF Ascending
<1>3. ASSUME NEW r \in History PROVE r \in Handed
  <2>1. r \in Nat /\ r < Stored /\ r + 1 \in 1 .. Len(got) /\ Stored \in 1 .. Len(got)
    BY <1>1 DEF History
  <2>2. got[r + 1] >= r /\ got[r + 1] \in Nat /\ got[Stored] \in Nat /\ got[Stored] <= Stored - 1
    BY <1>2, <2>1 DEF History
  <2>3. r + 1 < Stored => got[Stored] - got[r + 1] >= Stored - (r + 1)
    BY <1>1, <2>1 DEF Ascending
  <2>4. got[r + 1] = r
    BY <2>1, <2>2, <2>3
  <2>. QED
    BY <1>1, <2>1, <2>4 DEF Handed
<1>. QED
  BY <1>1, <1>2, <1>3 DEF Handed

(* update() keeps the invariant: it declares success only when every        *)
(* announced record has come.                                               *)
LEMMA WatchStep == SessionInv /\ Watch => SessionInv'
<1>. SUFFICES ASSUME SessionInv, Watch PROVE SessionInv'
  OBVIOUS
<1>1. SessionTypeOK
  BY DEF SessionInv
<1>2. /\ UNCHANGED <<fifo, toDev, dev, lost, begins, hasSecurityCode, expectedCount, recordCount, got>>
      /\ \/ state' = state /\ doneBy' = doneBy
         \/ state \in {"REQUESTED", "RECEIVING"} /\ state' = "ERROR" /\ doneBy' = doneBy
         \/ AllReceived /\ state' = "DONE"
  BY <1>1, WatchCases DEF linkVars
<1>3. SessionTypeOK'
  BY <1>1, SessionTypeStep DEF SessionNext
<1>4. CASE state' = state /\ doneBy' = doneBy
  BY <1>2, <1>3, <1>4, StillStep
<1>5. CASE \/ state \in {"REQUESTED", "RECEIVING"} /\ state' = "ERROR"
           \/ AllReceived /\ state' = "DONE"
  <2>1. state \in {"REQUESTED", "RECEIVING"} /\ state' \in {"DONE", "ERROR"}
        /\ (state = "REQUESTED" => state' = "ERROR")
    BY <1>5 DEF AllReceived
  <2>2. Arrivals' /\ Lock' /\ Quiet' /\ Begun'
    BY <1>2, <2>1 DEF SessionInv, Arrivals, Lock, TriggerMeetsUnlockedDevice, Quiet, Begun
  <2>3. ASSUME begins <= 1 PROVE FirstDownload'
    <3>1. OneTrigger /\ Counting /\ Ascending /\ InTurn
      BY <2>3 DEF SessionInv, FirstDownload
    <3>2. OneTrigger'
      BY <1>2, <2>1, <3>1 DEF OneTrigger, NoTrigger
    <3>3. Counting'
      BY <1>2, <2>1, <3>1 DEF Counting, NoErase
    <3>4. Ascending' /\ InTurn' /\ Accounted'
      BY <1>2, <2>1, <3>1 DEF Ascending, InTurn, Accounted
    <3>5. SilentSuccessIsComplete'
      <4>1. CASE state' = "ERROR"
        BY <4>1 DEF SilentSuccessIsComplete
      <4>2. CASE AllReceived
        <5>1. expectedCount = Stored /\ recordCount = Len(got) /\ Len(got) >= Stored
          BY <3>1, <4>2 DEF AllReceived, Counting
        <5>2. Handed = History
          BY <1>1, <3>1, <5>1, AllHanded, SessionAssumptions
        <5>. QED
          BY <1>2, <5>2 DEF SilentSuccessIsComplete, Handed
      <4>. QED
        BY <1>5, <4>1, <4>2
    <3>. QED
      BY <3>2, <3>3, <3>4, <3>5 DEF FirstDownload
  <2>. QED
    BY <1>2, <1>3, <2>2, <2>3 DEF SessionInv, FirstDownload
<1>. QED
  BY <1>2, <1>4, <1>5

(* The application begins a download: the first one starts from nothing.    *)
LEMMA BeginStep == SessionInv /\ AppBegin => SessionInv'
<1>. SUFFICES ASSUME SessionInv, AppBegin PROVE SessionInv'
  OBVIOUS
<1>1. SessionTypeOK /\ Arrivals /\ Lock /\ Quiet /\ Begun /\ begins \in Nat
  BY DEF SessionInv, SessionTypeOK
<1>2. /\ UNCHANGED <<fifo, dev, lost, hasSecurityCode, expectedCount, recordCount, doneBy>>
      /\ begins' = begins + 1 /\ got' = <<>>
      /\ \/ hasSecurityCode /\ state' = "UNLOCKING" /\ Aired(Packet(UBX_ID_MEM_UNLOCK, 4, 0))
         \/ ~hasSecurityCode /\ state' = "REQUESTED" /\ Aired(Trigger)
         \/ state' = "ERROR" /\ toDev' = toDev
  BY <1>1, BeginCases
<1>3. SessionTypeOK'
  BY <1>1, SessionTypeStep DEF SessionNext
<1>4. Arrivals'
  BY <1>1, <1>2 DEF Arrivals
<1>5. Lock'
  <2>1. \A i \in DOMAIN fifo' : IsUnlockAck(fifo'[i]) => dev'.unlocked
    BY <1>1, <1>2 DEF Lock
  <2>2. hasSecurityCode => \A i \in DOMAIN toDev' : toDev'[i].id = UBX_ID_DOWNLOAD => dev.unlocked
    BY <1>1, <1>2 DEF Lock, TriggerMeetsUnlockedDevice, Aired, Packet
  <2>. QED
    BY <1>2, <2>1, <2>2 DEF Lock, TriggerMeetsUnlockedDevice
<1>6. Quiet' /\ Begun'
  BY <1>1, <1>2 DEF Quiet, Begun
<1>7. ASSUME begins' <= 1 PROVE FirstDownload'
  <2>1. /\ state = "IDLE" /\ toDev = <<>> /\ fifo = <<>> /\ got = <<>> /\ recordCount = 0
        /\ ~dev.sending /\ ~dev.erased
    BY <1>1, <1>2, <1>7 DEF Quiet
  <2>2. fifo' = <<>> /\ got' = <<>> /\ recordCount' = 0 /\ dev' = dev
    BY <1>2, <2>1
  <2>3. \A i \in DOMAIN toDev' : i = 1 /\ toDev'[i].id # UBX_ID_ERASE
        /\ (toDev'[i].id = UBX_ID_DOWNLOAD => state' = "REQUESTED")
    BY <1>2, <2>1 DEF Aired, Trigger, Packet
  <2>4. OneTrigger'
    BY <1>2, <2>1, <2>2, <2>3 DEF OneTrigger, NoTrigger
  <2>5. Counting'
    BY <1>2, <2>1, <2>2, <2>3 DEF Counting, NoErase
  <2>6. Ascending' /\ InTurn'
    BY <2>1, <2>2 DEF Ascending, InTurn
  <2>7. Accounted' /\ SilentSuccessIsComplete'
    BY <1>2, <2>2 DEF Accounted, SilentSuccessIsComplete
  <2>. QED
    BY <2>4, <2>5, <2>6, <2>7 DEF FirstDownload
<1>. QED
  BY <1>3, <1>4, <1>5, <1>6, <1>7 DEF SessionInv, FirstDownload

(* A security code is set before anything is on the air.                    *)
LEMMA SecurityCodeStep == SessionInv /\ AppSetSecurityCode => SessionInv'
<1>. SUFFICES ASSUME SessionInv, AppSetSecurityCode PROVE SessionInv'
  OBVIOUS
<1>1. SessionTypeOK /\ begins = 0 /\ toDev = <<>> /\ Quiet /\ Begun /\ Lock /\ Arrivals /\ FirstDownload
  BY DEF SessionInv, Quiet, AppSetSecurityCode
<1>2. PICK isSet \in BOOLEAN : SetSecurityCode(isSet)
  BY DEF AppSetSecurityCode
<1>3. UNCHANGED <<state, expectedCount, recordCount, fifo, dev, got, lost, begins, doneBy>>
      /\ toDev' = toDev
  BY <1>1, <1>2, LinkTyped, TransmitNothing DEF SetSecurityCode, AppSetSecurityCode, Elsewhere, devVars, counts
<1>4. SessionTypeOK'
  BY <1>1, SessionTypeStep DEF SessionNext
<1>5. Arrivals' /\ Quiet' /\ Begun' /\ Lock'
  BY <1>1, <1>3 DEF Arrivals, Quiet, Begun, Lock, TriggerMeetsUnlockedDevice
<1>6. FirstDownload'
  <2>1. OneTrigger /\ Counting /\ Ascending /\ InTurn /\ Accounted /\ SilentSuccessIsComplete
    BY <1>1 DEF FirstDownload
  <2>2. OneTrigger' /\ Counting'
    BY <1>3, <2>1 DEF OneTrigger, Counting, NoTrigger, NoErase
  <2>3. Ascending' /\ InTurn'
    BY <1>3, <2>1 DEF Ascending, InTurn
  <2>4. Accounted' /\ SilentSuccessIsComplete'
    BY <1>3, <2>1 DEF Accounted, SilentSuccessIsComplete, Unsent, Handed
  <2>. QED
    BY <2>2, <2>3, <2>4 DEF FirstDownload
<1>. QED
  BY <1>4, <1>5, <1>6 DEF SessionInv

(* The memory is erased once the download is done.                          *)
LEMMA EraseStep == SessionInv /\ AppErase => SessionInv'
<1>. SUFFICES ASSUME SessionInv, AppErase PROVE SessionInv'
  OBVIOUS
<1>1. SessionTypeOK
  BY DEF SessionInv
<1>2. /\ UNCHANGED <<fifo, dev, lost, hasSecurityCode, state, expectedCount, recordCount,
                     doneBy, begins, got>>
      /\ state = "DONE" /\ toDev = <<>>
      /\ Aired(Packet(UBX_ID_ERASE, 0, 0))
  BY <1>1, EraseCases
<1>3. SessionTypeOK'
  BY <1>1, SessionTypeStep DEF SessionNext
<1>4. \A i \in DOMAIN toDev' : toDev'[i].id # UBX_ID_DOWNLOAD
  BY <1>2 DEF Aired, Packet
<1>5. Arrivals' /\ Lock' /\ Quiet' /\ Begun'
  BY <1>2, <1>4 DEF SessionInv, Arrivals, Lock, TriggerMeetsUnlockedDevice, Quiet, Begun
<1>6. ASSUME begins' <= 1 PROVE FirstDownload'
  <2>1. Counting /\ Ascending /\ InTurn /\ SilentSuccessIsComplete
    BY <1>2, <1>6 DEF SessionInv, FirstDownload
  <2>2. OneTrigger' /\ Counting'
    BY <1>2, <1>4, <2>1 DEF OneTrigger, Counting, NoTrigger
  <2>3. Ascending' /\ InTurn' /\ Accounted' /\ SilentSuccessIsComplete'
    BY <1>2, <2>1 DEF Ascending, InTurn, Accounted, SilentSuccessIsComplete, Handed
  <2>. QED
    BY <2>2, <2>3 DEF FirstDownload
<1>. QED
  BY <1>3, <1>5, <1>6 DEF SessionInv, FirstDownload

(* A link loss takes everything under way with it.                          *)
LEMMA DropStep == SessionInv /\ Drop => SessionInv'
<1>. SUFFICES ASSUME SessionInv, Drop PROVE SessionInv'
  OBVIOUS
<1>1. SessionTypeOK /\ Stored \in Nat
  BY SessionAssumptions DEF SessionInv
<1>2. SessionTypeOK'
  BY <1>1, SessionTypeStep DEF SessionNext
<1>3. /\ fifo' = <<>> /\ toDev' = <<>>
      /\ UNCHANGED <<state, expectedCount, recordCount, hasSecurityCode, begins, got, doneBy>>
      /\ ~dev'.sending /\ dev'.next = 0 /\ dev'.erased = dev.erased
      /\ lost' = lost \cup Positions(fifo) \cup Unsent
  BY <1>1 DEF Drop, LinkDown, ClearFifo, Silent, counts, loopVars, Idle, Unsent, SessionTypeOK
<1>4. Arrivals' /\ Lock' /\ Quiet' /\ Begun'
  BY <1>1, <1>3 DEF SessionInv, Arrivals, Lock, TriggerMeetsUnlockedDevice, Quiet, Begun
<1>5. ASSUME begins' <= 1 PROVE FirstDownload'
  <2>1. OneTrigger /\ Counting /\ Ascending /\ InTurn /\ Accounted /\ SilentSuccessIsComplete
    BY <1>3, <1>5 DEF SessionInv, FirstDownload
  <2>2. OneTrigger'
    BY <1>3, <2>1 DEF OneTrigger, NoTrigger
  <2>3. Counting'
    BY <1>3, <2>1 DEF Counting, NoErase
  <2>4. Ascending' /\ InTurn'
    BY <1>3, <2>1 DEF Ascending, InTurn
  <2>5. Accounted' /\ SilentSuccessIsComplete'
    BY <1>3, <2>1 DEF Accounted, SilentSuccessIsComplete, Handed
  <2>. QED
    BY <2>2, <2>3, <2>4, <2>5 DEF FirstDownload
<1>. QED
  BY <1>2, <1>4, <1>5 DEF SessionInv, FirstDownload

------------------------------------------------------------------------------
(* What the device does keeps the invariant.                                *)

\* The device read a command, or let them be.
ReadsAtMost == toDev' = toDev \/ \E id : Read(id)

Singly(s) ==
  \A i, j \in DOMAIN s : s[i].id = UBX_ID_DOWNLOAD /\ s[j].id = UBX_ID_DOWNLOAD => i = j

(* A command read by the device, or none, adds no command to the air.       *)
LEMMA FewerCommands ==
  ASSUME ReadsAtMost
  PROVE  /\ NoTrigger => NoTrigger'
         /\ NoErase => NoErase'
         /\ Singly(toDev) => Singly(toDev')
         /\ TriggerMeetsUnlockedDevice /\ hasSecurityCode' = hasSecurityCode
              /\ (dev.unlocked => dev'.unlocked) => TriggerMeetsUnlockedDevice'
<1>1. CASE toDev' = toDev
  BY <1>1 DEF NoTrigger, NoErase, Singly, TriggerMeetsUnlockedDevice
<1>2. CASE \E id : Read(id)
  <2>1. \A i \in DOMAIN toDev' :
          i \in Nat /\ i + 1 \in DOMAIN toDev /\ toDev'[i] = toDev[i + 1]
    BY <1>2 DEF Read
  <2>2. Singly(toDev) => Singly(toDev')
    <3>. SUFFICES ASSUME Singly(toDev), NEW i \in DOMAIN toDev', NEW j \in DOMAIN toDev',
                         toDev'[i].id = UBX_ID_DOWNLOAD, toDev'[j].id = UBX_ID_DOWNLOAD
                  PROVE  i = j
      BY DEF Singly
    <3>1. i + 1 = j + 1 /\ i \in Nat /\ j \in Nat
      BY <2>1 DEF Singly
    <3>. QED
      BY <3>1
  <2>. QED
    BY <2>1, <2>2 DEF NoTrigger, NoErase, TriggerMeetsUnlockedDevice
<1>. QED
  BY <1>1, <1>2 DEF ReadsAtMost

\* Once a trigger was read, none is left.
LEMMA LastTrigger ==
  ASSUME Read(UBX_ID_DOWNLOAD), Singly(toDev)
  PROVE  NoTrigger'
BY DEF Read, Singly, NoTrigger

(* A well-formed packet arrives among well-formed ones.                     *)
LEMMA ArrivedArrivals ==
  ASSUME Arrivals, NEW pkt, NEW k, Arrived(pkt, k), dev'.next <= Stored,
         pkt.cls = UBX_CLASS_RACEBOX,
         IsCount(pkt) => pkt.len = 4,
         IsRecord(pkt) => pkt.len = RACEBOX_PAYLOAD_LEN /\ pkt.arg \in History
  PROVE  Arrivals'
<1>1. ASSUME NEW i \in DOMAIN fifo'
      PROVE  /\ fifo'[i].cls = UBX_CLASS_RACEBOX
             /\ IsCount(fifo'[i]) => fifo'[i].len = 4
             /\ IsRecord(fifo'[i]) => fifo'[i].len = RACEBOX_PAYLOAD_LEN /\ fifo'[i].arg \in History
  <2>1. CASE i < Len(fifo')
    BY <2>1 DEF Arrived, Arrivals
  <2>2. CASE i = Len(fifo')
    BY <2>2 DEF Arrived
  <2>. QED
    BY <2>1, <2>2 DEF Arrived
<1>. QED
  BY <1>1 DEF Arrivals

(* An arrival keeps the lock's account, as long as an unlock's ACK comes    *)
(* from an unlocked device.                                                 *)
LEMMA ArrivedLock ==
  ASSUME Lock, NEW pkt, NEW k, Arrived(pkt, k), ReadsAtMost, hasSecurityCode' = hasSecurityCode,
         dev.unlocked => dev'.unlocked,
         IsUnlockAck(pkt) => dev'.unlocked
  PROVE  Lock'
<1>1. \A i \in DOMAIN fifo' : IsUnlockAck(fifo'[i]) => dev'.unlocked
  <2>. SUFFICES ASSUME NEW i \in DOMAIN fifo', IsUnlockAck(fifo'[i]) PROVE dev'.unlocked
    OBVIOUS
  <2>1. CASE i < Len(fifo')
    BY <2>1 DEF Arrived, Lock
  <2>2. CASE i = Len(fifo')
    BY <2>2 DEF Arrived
  <2>. QED
    BY <2>1, <2>2 DEF Arrived
<1>2. TriggerMeetsUnlockedDevice'
  BY FewerCommands DEF Lock
<1>. QED
  BY <1>1, <1>2 DEF Lock

\* A record sent is the next one of the device's memory.
LEMMA ArrivedAscending ==
  ASSUME SessionTypeOK, SessionTypeOK', Ascending, NEW pkt, NEW k, Arrived(pkt, k), got' = got,
         dev'.sending => dev.sending /\ dev'.next >= dev.next,
         IsRecord(pkt) => dev.sending /\ pkt.arg = dev.next /\ dev'.next = dev.next + 1
  PROVE  Ascending'
<1>1. dev.next \in Nat /\ dev'.next \in Nat /\ fifo \in Seq(UbxPacket) /\ fifo' \in Seq(UbxPacket)
      /\ got \in Seq(Nat)
  BY DEF SessionTypeOK, LinkTypeOK
<1>2. ASSUME NEW i \in DOMAIN fifo', IsRecord(fifo'[i])
      PROVE  /\ \A j \in DOMAIN got : got[j] < fifo'[i].arg
             /\ \A j \in DOMAIN fifo' : i < j /\ IsRecord(fifo'[j]) => fifo'[i].arg < fifo'[j].arg
             /\ dev'.sending => fifo'[i].arg < dev'.next
  <2>1. i \in Nat /\ i <= Len(fifo') /\ k \in Nat /\ Len(fifo') \in Nat
    BY <1>1 DEF Arrived
  <2>2. CASE i < Len(fifo')
    <3>0. fifo'[i] \in UbxPacket
      BY <1>1
    <3>1. i + k \in DOMAIN fifo /\ IsRecord(fifo[i + k]) /\ fifo'[i] = fifo[i + k]
          /\ fifo'[i].arg \in Nat
      BY <1>2, <2>2, <3>0 DEF Arrived, UbxPacket
    <3>2. \A j \in DOMAIN got : got[j] < fifo'[i].arg
      BY <3>1 DEF Ascending
    <3>3. dev.sending => fifo'[i].arg < dev.next
      BY <3>1 DEF Ascending
    <3>4. ASSUME NEW j \in DOMAIN fifo', i < j, IsRecord(fifo'[j])
          PROVE  fifo'[i].arg < fifo'[j].arg
      <4>1. CASE j < Len(fifo')
        <5>1. j + k \in DOMAIN fifo /\ IsRecord(fifo[j + k]) /\ fifo'[j] = fifo[j + k] /\ i + k < j + k
          BY <2>1, <3>4, <4>1 DEF Arrived
        <5>. QED
          BY <3>1, <5>1 DEF Ascending
      <4>2. CASE j = Len(fifo')
        BY <3>3, <3>4, <4>2 DEF Arrived
      <4>. QED
        BY <4>1, <4>2 DEF Arrived
    <3>. QED
      BY <1>1, <3>1, <3>2, <3>3, <3>4
  <2>3. CASE i = Len(fifo')
    <3>1. IsRecord(pkt) /\ fifo'[i].arg = dev.next /\ dev.sending /\ dev'.next = dev.next + 1
      BY <1>2, <2>3 DEF Arrived
    <3>2. \A j \in DOMAIN fifo' : ~(i < j)
      BY <2>1, <2>3 DEF Arrived
    <3>. QED
      BY <1>1, <3>1, <3>2 DEF Ascending
  <2>. QED
    BY <2>1, <2>2, <2>3
<1>3. dev'.sending => \A j \in DOMAIN got : got[j] < dev'.next
  BY <1>1 DEF Ascending
<1>. QED
  BY <1>2, <1>3 DEF Ascending

(* An arrival keeps the turn: no count after a record, nothing after the    *)
(* final ACK.                                                               *)
LEMMA ArrivedInTurn ==
  ASSUME InTurn, NEW pkt, NEW k, Arrived(pkt, k),
         dev'.sending \/ IsCount(pkt) \/ IsRecord(pkt) => \A i \in DOMAIN fifo : ~IsLastAck(fifo[i]),
         IsCount(pkt) => \A i \in DOMAIN fifo : ~IsRecord(fifo[i]),
         IsLastAck(pkt) => ~dev'.sending
  PROVE  InTurn'
<1>1. ASSUME NEW i \in DOMAIN fifo', NEW j \in DOMAIN fifo',
             IsCount(fifo'[i]), IsRecord(fifo'[j]) \/ IsLastAck(fifo'[j])
      PROVE  i < j
  <2>1. i \in Nat /\ j \in Nat /\ i <= Len(fifo') /\ j <= Len(fifo') /\ k \in Nat
    BY DEF Arrived
  <2>2. ~(IsCount(pkt) /\ (IsRecord(pkt) \/ IsLastAck(pkt)))
    BY DEF IsCount, IsRecord, IsLastAck
  <2>3. CASE i = Len(fifo')
    <3>1. IsCount(pkt) /\ j < Len(fifo')
      BY <1>1, <2>1, <2>2, <2>3 DEF Arrived
    <3>. QED
      BY <1>1, <3>1 DEF Arrived
  <2>4. CASE i < Len(fifo') /\ j < Len(fifo')
    <3>1. i + k < j + k
      BY <1>1, <2>4 DEF Arrived, InTurn
    <3>. QED
      BY <2>1, <3>1
  <2>. QED
    BY <2>1, <2>3, <2>4
<1>2. ASSUME NEW i \in DOMAIN fifo', NEW j \in DOMAIN fifo', IsLastAck(fifo'[i])
      PROVE  ~dev'.sending /\ (IsRecord(fifo'[j]) => j < i)
  <2>1. i \in Nat /\ j \in Nat /\ i <= Len(fifo') /\ j <= Len(fifo') /\ k \in Nat
    BY DEF Arrived
  <2>2. ~(IsRecord(pkt) /\ IsLastAck(pkt))
    BY DEF IsRecord, IsLastAck
  <2>3. CASE i = Len(fifo')
    <3>1. IsLastAck(pkt) /\ (IsRecord(fifo'[j]) => j # Len(fifo'))
      BY <1>2, <2>2, <2>3 DEF Arrived
    <3>. QED
      BY <2>1, <2>3, <3>1
  <2>4. CASE i < Len(fifo')
    <3>1. i + k \in DOMAIN fifo /\ IsLastAck(fifo[i + k])
      BY <1>2, <2>4 DEF Arrived
    <3>2. ~dev'.sending /\ ~IsRecord(pkt)
      BY <3>1
    <3>3. IsRecord(fifo'[j]) => j < Len(fifo')
      BY <2>1, <3>2 DEF Arrived
    <3>4. IsRecord(fifo'[j]) => j + k \in DOMAIN fifo /\ IsRecord(fifo[j + k])
      BY <3>3 DEF Arrived
    <3>5. IsRecord(fifo'[j]) => j + k < i + k
      BY <3>1, <3>4 DEF InTurn
    <3>. QED
      BY <2>1, <3>2, <3>5
  <2>. QED
    BY <2>1, <2>3, <2>4
<1>. QED
  BY <1>1, <1>2 DEF InTurn

\* What overflows is noted; what was not sent yet is sent or stays unsent.
LEMMA ArrivedAccounted ==
  ASSUME SessionTypeOK, Accounted, NEW pkt \in UbxPacket, NEW k, Arrived(pkt, k),
         lost' = lost \cup Positions(SubSeq(fifo, 1, k)),
         state' = state, got' = got,
         Unsent \subseteq Unsent' \cup Positions(fifo'),
         IsCount(pkt) => state # "REQUESTED" \/ History \subseteq Unsent'
  PROVE  Accounted'
<1>. SUFFICES ASSUME \/ state = "RECEIVING"
                     \/ state = "REQUESTED" /\ \E i \in DOMAIN fifo' : IsCount(fifo'[i])
              PROVE  History \subseteq Handed \cup lost' \cup Positions(fifo') \cup Unsent'
  BY DEF Accounted, Handed
<1>1. \/ state = "RECEIVING"
      \/ state = "REQUESTED" /\ \E i \in DOMAIN fifo : IsCount(fifo[i])
      \/ state = "REQUESTED" /\ IsCount(pkt)
  <2>1. ASSUME NEW i \in DOMAIN fifo', IsCount(fifo'[i])
        PROVE  IsCount(pkt) \/ \E j \in DOMAIN fifo : IsCount(fifo[j])
    <3>1. i = Len(fifo') \/ i < Len(fifo')
      BY DEF Arrived
    <3>. QED
      BY <2>1, <3>1 DEF Arrived
  <2>. QED
    BY <2>1
<1>2. Positions(fifo) \subseteq Positions(SubSeq(fifo, 1, k)) \cup Positions(fifo')
  BY PositionsKept
<1>. QED
  BY <1>1, <1>2 DEF Accounted

\* The driver and the application see nothing of a step of the device.
LEMMA DeviceCases ==
  ASSUME Device
  PROVE  UNCHANGED <<state, expectedCount, recordCount, hasSecurityCode, begins, got, doneBy>>
BY DEF Device, DevStep, Silent, counts, loopVars

\* A notification that is neither a count nor a record nor the final ACK.
LEMMA NeutralArrival ==
  ASSUME SessionInv, SessionTypeOK', begins <= 1, NEW pkt \in UbxPacket, NEW k, Arrived(pkt, k),
         ~IsCount(pkt), ~IsRecord(pkt), ~IsLastAck(pkt),
         lost' = lost \cup Positions(SubSeq(fifo, 1, k)),
         ReadsAtMost,
         dev'.sending = dev.sending, dev'.next = dev.next, dev'.erased = dev.erased,
         UNCHANGED <<state, expectedCount, recordCount, begins, got, doneBy>>
  PROVE  FirstDownload'
<1>1. /\ SessionTypeOK /\ OneTrigger /\ Counting /\ Ascending /\ InTurn /\ Accounted
      /\ SilentSuccessIsComplete /\ dev.next \in Nat
  BY DEF SessionInv, FirstDownload, SessionTypeOK
<1>2. \A i \in DOMAIN fifo' :
        \/ \E j \in DOMAIN fifo : fifo'[i] = fifo[j]
        \/ ~IsCount(fifo'[i]) /\ ~IsRecord(fifo'[i]) /\ ~IsLastAck(fifo'[i])
  <2>1. \A i \in DOMAIN fifo' : i < Len(fifo') \/ i = Len(fifo')
    BY DEF Arrived
  <2>. QED
    BY <2>1 DEF Arrived
<1>3. OneTrigger'
  <2>1. Singly(toDev') /\ (NoTrigger => NoTrigger')
    BY <1>1, FewerCommands DEF OneTrigger, Singly
  <2>2. state \in {"IDLE", "UNLOCKING"} \/ ~NoTrigger' =>
          \A i \in DOMAIN fifo' : ~IsCount(fifo'[i]) /\ ~IsRecord(fifo'[i]) /\ ~IsLastAck(fifo'[i])
    BY <1>1, <1>2, <2>1 DEF OneTrigger
  <2>. QED
    BY <1>1, <2>1, <2>2 DEF OneTrigger, Singly
<1>4. Counting'
  <2>1. NoErase => NoErase'
    BY FewerCommands
  <2>2. \A i \in DOMAIN fifo' : IsCount(fifo'[i]) => fifo'[i].arg = Stored
    BY <1>1, <1>2 DEF Counting
  <2>. QED
    BY <1>1, <2>1, <2>2 DEF Counting
<1>5. Ascending'
  BY <1>1, ArrivedAscending
<1>6. InTurn'
  <2>1. dev.sending => \A i \in DOMAIN fifo : ~IsLastAck(fifo[i])
    BY <1>1 DEF InTurn
  <2>. QED
    BY <1>1, <2>1, ArrivedInTurn
<1>7. Accounted'
  <2>1. Unsent' = Unsent
    BY DEF Unsent
  <2>. QED
    BY <1>1, <2>1, ArrivedAccounted
<1>8. SilentSuccessIsComplete'
  BY <1>1 DEF SilentSuccessIsComplete, Handed
<1>. QED
  BY <1>3, <1>4, <1>5, <1>6, <1>7, <1>8 DEF FirstDownload

\* What holds of every step of the device that sends a packet.
LEMMA SendingStep ==
  ASSUME SessionInv, Device, NEW pkt \in UbxPacket, NEW k, Arrived(pkt, k), ReadsAtMost,
         dev'.next <= Stored, dev.unlocked => dev'.unlocked,
         pkt.cls = UBX_CLASS_RACEBOX,
         IsCount(pkt) => pkt.len = 4,
         IsRecord(pkt) => pkt.len = RACEBOX_PAYLOAD_LEN /\ pkt.arg \in History,
         IsUnlockAck(pkt) => dev'.unlocked,
         toDev # <<>> \/ dev.sending,
         begins <= 1 => FirstDownload'
  PROVE  SessionInv'
<1>1. UNCHANGED <<state, expectedCount, recordCount, hasSecurityCode, begins, got, doneBy>>
  BY DeviceCases
<1>2. SessionTypeOK'
  BY SessionTypeStep DEF SessionInv, SessionNext
<1>3. Arrivals' /\ Lock'
  BY <1>1, ArrivedArrivals, ArrivedLock DEF SessionInv
<1>4. Quiet' /\ Begun'
  BY <1>1 DEF SessionInv, Quiet, Begun
<1>5. FirstDownload'
  BY <1>1 DEF FirstDownload
<1>. QED
  BY <1>2, <1>3, <1>4, <1>5 DEF SessionInv

(* The device's answer to an unlock keeps the invariant.                    *)
LEMMA UnlockStep == SessionInv /\ Device /\ DevUnlock => SessionInv'
<1>. SUFFICES ASSUME SessionInv, Device, DevUnlock PROVE SessionInv'
  OBVIOUS
<1>1. SessionTypeOK /\ SessionTypeOK' /\ dev.next <= Stored
      /\ UNCHANGED <<state, expectedCount, recordCount, begins, got, doneBy>>
  BY SessionTypeStep, DeviceCases DEF SessionInv, Arrivals, SessionNext
<1>2. ReadsAtMost /\ toDev # <<>>
  BY <1>1, LinkTyped, DeviceReads DEF DevUnlock, ReadsAtMost, Receives
<1>3. PICK id \in {UBX_ID_ACK, UBX_ID_NACK} :
        /\ Notify(Packet(id, 2, UBX_ID_MEM_UNLOCK))
        /\ dev' = IF id = UBX_ID_ACK THEN [dev EXCEPT !.unlocked = TRUE] ELSE dev
  BY DEF DevUnlock
<1>. DEFINE pkt == Packet(id, 2, UBX_ID_MEM_UNLOCK)
<1>4. /\ pkt \in UbxPacket /\ pkt.cls = UBX_CLASS_RACEBOX /\ pkt.id = id
      /\ ~IsCount(pkt) /\ ~IsRecord(pkt) /\ ~IsLastAck(pkt)
      /\ IsUnlockAck(pkt) => id = UBX_ID_ACK
  BY DevicePackets DEF Packet, IsCount, IsRecord, IsLastAck, IsUnlockAck
<1>5. PICK k : Arrived(pkt, k) /\ lost' = lost \cup Positions(SubSeq(fifo, 1, k))
  BY <1>1, <1>3, <1>4, NotifyArrives
<1>. HIDE DEF pkt
<1>6. /\ dev'.sending = dev.sending /\ dev'.next = dev.next /\ dev'.erased = dev.erased
      /\ dev.unlocked => dev'.unlocked
      /\ id = UBX_ID_ACK => dev'.unlocked
  BY <1>1, <1>3 DEF SessionTypeOK
<1>7. begins <= 1 => FirstDownload'
  BY <1>1, <1>2, <1>4, <1>5, <1>6, NeutralArrival
<1>. QED
  BY <1>1, <1>2, <1>4, <1>5, <1>6, <1>7, SendingStep

(* A boundary marker keeps the invariant.                                   *)
LEMMA MarkerStep == SessionInv /\ Device /\ DevMarker => SessionInv'
<1>. SUFFICES ASSUME SessionInv, Device, DevMarker PROVE SessionInv'
  OBVIOUS
<1>1. SessionTypeOK /\ SessionTypeOK' /\ dev.next <= Stored
      /\ UNCHANGED <<state, expectedCount, recordCount, begins, got, doneBy>>
  BY SessionTypeStep, DeviceCases DEF SessionInv, Arrivals, SessionNext
<1>2. ReadsAtMost /\ dev.sending /\ dev' = dev
  BY DEF DevMarker, ReadsAtMost
<1>. DEFINE pkt == Packet(UBX_ID_STATE_CHANGE, 12, 1)
<1>3. /\ pkt \in UbxPacket /\ pkt.cls = UBX_CLASS_RACEBOX
      /\ ~IsCount(pkt) /\ ~IsRecord(pkt) /\ ~IsLastAck(pkt) /\ ~IsUnlockAck(pkt)
  BY DevicePackets DEF Packet, IsCount, IsRecord, IsLastAck, IsUnlockAck
<1>4. PICK k : Arrived(pkt, k) /\ lost' = lost \cup Positions(SubSeq(fifo, 1, k))
  BY <1>1, <1>3, NotifyArrives DEF DevMarker
<1>. HIDE DEF pkt
<1>5. begins <= 1 => FirstDownload'
  BY <1>1, <1>2, <1>3, <1>4, NeutralArrival
<1>. QED
  BY <1>1, <1>2, <1>3, <1>4, <1>5, SendingStep

(* The device reads the trigger: it refuses, or the download starts there.  *)
LEMMA DownloadStep == SessionInv /\ Device /\ DevDownload => SessionInv'
<1>. SUFFICES ASSUME SessionInv, Device, DevDownload PROVE SessionInv'
  OBVIOUS
<1>1. SessionTypeOK /\ SessionTypeOK' /\ dev.next <= Stored /\ Stored \in Nat
      /\ UNCHANGED <<state, expectedCount, recordCount, begins, got, doneBy>>
  BY SessionTypeStep, DeviceCases, SessionAssumptions DEF SessionInv, Arrivals, SessionNext
<1>2. Read(UBX_ID_DOWNLOAD) /\ ReadsAtMost /\ toDev # <<>>
  BY <1>1, LinkTyped, DeviceReads DEF DevDownload, ReadsAtMost, Receives
<1>3. CASE dev' = dev /\ Notify(Packet(UBX_ID_NACK, 2, UBX_ID_DOWNLOAD))
  <2>. DEFINE pkt == Packet(UBX_ID_NACK, 2, UBX_ID_DOWNLOAD)
  <2>1. /\ pkt \in UbxPacket /\ pkt.cls = UBX_CLASS_RACEBOX
        /\ ~IsCount(pkt) /\ ~IsRecord(pkt) /\ ~IsLastAck(pkt) /\ ~IsUnlockAck(pkt)
    BY DevicePackets DEF Packet, IsCount, IsRecord, IsLastAck, IsUnlockAck
  <2>2. PICK k : Arrived(pkt, k) /\ lost' = lost \cup Positions(SubSeq(fifo, 1, k))
    BY <1>1, <1>3, <2>1, NotifyArrives
  <2>. HIDE DEF pkt
  <2>3. begins <= 1 => FirstDownload'
    BY <1>1, <1>2, <1>3, <2>1, <2>2, NeutralArrival
  <2>. QED
    BY <1>1, <1>2, <1>3, <2>1, <2>2, <2>3, SendingStep
<1>4. ASSUME NEW n, n = (IF dev.erased THEN 0 ELSE Stored), Notify(Packet(UBX_ID_DOWNLOAD, 4, n)),
             dev' = [dev EXCEPT !.sending = TRUE, !.next = IF dev.erased THEN Stored ELSE 0]
      PROVE  SessionInv'
  <2>. DEFINE pkt == Packet(UBX_ID_DOWNLOAD, 4, n)
  <2>1. /\ pkt \in UbxPacket /\ pkt.cls = UBX_CLASS_RACEBOX /\ pkt.len = 4 /\ pkt.arg = n
        /\ IsCount(pkt) /\ ~IsRecord(pkt) /\ ~IsLastAck(pkt) /\ ~IsUnlockAck(pkt)
    <3>1. n \in Nat
      BY <1>1, <1>4
    <3>2. pkt \in UbxPacket
      BY <3>1, DevicePackets
    <3>. QED
      BY <3>2 DEF Packet, IsCount, IsRecord, IsLastAck, IsUnlockAck
  <2>2. PICK k : Arrived(pkt, k) /\ lost' = lost \cup Positions(SubSeq(fifo, 1, k))
    BY <1>1, <1>4, <2>1, NotifyArrives
  <2>. HIDE DEF pkt
  <2>3. /\ dev'.sending /\ dev'.erased = dev.erased /\ dev'.unlocked = dev.unlocked
        /\ dev'.next = (IF dev.erased THEN Stored ELSE 0) /\ dev'.next <= Stored
    BY <1>1, <1>4 DEF SessionTypeOK
  <2>4. ASSUME begins <= 1 PROVE FirstDownload'
    <3>1. OneTrigger /\ Counting /\ Ascending /\ InTurn /\ Accounted /\ SilentSuccessIsComplete
      BY <2>4 DEF SessionInv, FirstDownload
    <3>2. ~NoTrigger
      BY <1>2 DEF Read, NoTrigger
    <3>3. /\ state \in {"REQUESTED", "ERROR"}
          /\ ~dev.sending /\ got = <<>>
          /\ \A i \in DOMAIN fifo : ~IsCount(fifo[i]) /\ ~IsRecord(fifo[i]) /\ ~IsLastAck(fifo[i])
      BY <1>1, <3>1, <3>2 DEF OneTrigger, SessionTypeOK, TypeOK, State
    <3>4. ~dev.erased /\ NoErase /\ NoErase' /\ NoTrigger' /\ n = Stored /\ dev'.next = 0
      BY <1>2, <1>4, <2>3, <3>1, <3>3, LastTrigger, FewerCommands DEF Counting, OneTrigger, Singly
    <3>5. \A i \in DOMAIN fifo' :
            i \in Nat /\ i <= Len(fifo') /\ ~IsRecord(fifo'[i]) /\ ~IsLastAck(fifo'[i])
            /\ (IsCount(fifo'[i]) => i = Len(fifo') /\ fifo'[i].arg = Stored)
      <4>1. \A i \in DOMAIN fifo' : i < Len(fifo') \/ i = Len(fifo')
        BY DEF Arrived
      <4>. QED
        BY <2>1, <2>2, <3>3, <3>4, <4>1 DEF Arrived
    <3>6. OneTrigger'
      BY <1>1, <3>3, <3>4 DEF OneTrigger, NoTrigger
    <3>7. Counting'
      BY <1>1, <2>3, <3>1, <3>3, <3>4, <3>5 DEF Counting
    <3>8. Ascending' /\ InTurn'
      BY <1>1, <3>3, <3>5 DEF Ascending, InTurn
    <3>9. Unsent' = History
      BY <2>3, <3>4 DEF Unsent, History
    <3>10. Accounted' /\ SilentSuccessIsComplete'
      BY <1>1, <3>3, <3>9 DEF Accounted, SilentSuccessIsComplete
    <3>. QED
      BY <3>6, <3>7, <3>8, <3>10 DEF FirstDownload
  <2>. QED
    BY <1>1, <1>2, <2>1, <2>2, <2>3, <2>4, SendingStep
<1>. QED
  <2>. DEFINE n == IF dev.erased THEN 0 ELSE Stored
  <2>1. \/ dev' = dev /\ Notify(Packet(UBX_ID_NACK, 2, UBX_ID_DOWNLOAD))
        \/ /\ Notify(Packet(UBX_ID_DOWNLOAD, 4, n))
           /\ dev' = [dev EXCEPT !.sending = TRUE, !.next = IF dev.erased THEN Stored ELSE 0]
    BY DEF DevDownload
  <2>. QED
    BY <1>3, <1>4, <2>1

(* The device's erase keeps the invariant.                                  *)
LEMMA DevEraseStep == SessionInv /\ Device /\ DevErase => SessionInv'
<1>. SUFFICES ASSUME SessionInv, Device, DevErase PROVE SessionInv'
  OBVIOUS
<1>1. SessionTypeOK /\ SessionTypeOK' /\ Stored \in Nat
      /\ UNCHANGED <<state, expectedCount, recordCount, begins, got, doneBy>>
  BY SessionTypeStep, DeviceCases, SessionAssumptions DEF SessionInv, SessionNext
<1>2. Read(UBX_ID_ERASE) /\ ReadsAtMost /\ toDev # <<>>
  BY <1>1, LinkTyped, DeviceReads DEF DevErase, ReadsAtMost, Receives
<1>. DEFINE pkt == Packet(UBX_ID_ACK, 2, UBX_ID_ERASE)
<1>3. /\ pkt \in UbxPacket /\ pkt.cls = UBX_CLASS_RACEBOX
      /\ ~IsCount(pkt) /\ ~IsRecord(pkt) /\ ~IsLastAck(pkt) /\ ~IsUnlockAck(pkt)
  BY DevicePackets DEF Packet, IsCount, IsRecord, IsLastAck, IsUnlockAck
<1>4. PICK k : Arrived(pkt, k) /\ lost' = lost \cup Positions(SubSeq(fifo, 1, k))
  BY <1>1, <1>3, NotifyArrives DEF DevErase
<1>. HIDE DEF pkt
<1>5. ~dev'.sending /\ dev'.next = 0 /\ dev'.unlocked = dev.unlocked /\ dev'.next <= Stored
  BY <1>1 DEF DevErase, Idle, SessionTypeOK
<1>6. ASSUME begins <= 1 PROVE FirstDownload'
  <2>1. OneTrigger /\ Counting /\ Ascending /\ InTurn /\ Accounted /\ SilentSuccessIsComplete
    BY <1>6 DEF SessionInv, FirstDownload
  <2>2. state = "DONE" /\ NoTrigger
    BY <1>2, <2>1 DEF Read, NoErase, Counting, OneTrigger
  <2>3. NoTrigger'
    BY <1>2, <2>2, FewerCommands
  <2>4. OneTrigger'
    BY <1>1, <2>2, <2>3 DEF OneTrigger, NoTrigger
  <2>5. Counting'
    <3>1. \A i \in DOMAIN fifo' : i < Len(fifo') \/ i = Len(fifo')
      BY <1>4 DEF Arrived
    <3>2. \A i \in DOMAIN fifo' : IsCount(fifo'[i]) => fifo'[i].arg = Stored
      BY <1>3, <1>4, <2>1, <3>1 DEF Arrived, Counting
    <3>. QED
      BY <1>1, <2>1, <2>2, <3>2 DEF Counting
  <2>6. Ascending'
    BY <1>1, <1>3, <1>4, <1>5, <2>1, ArrivedAscending
  <2>7. InTurn'
    BY <1>3, <1>4, <1>5, <2>1, ArrivedInTurn
  <2>8. Accounted' /\ SilentSuccessIsComplete'
    BY <1>1, <2>1, <2>2 DEF Accounted, SilentSuccessIsComplete, Handed
  <2>. QED
    BY <2>4, <2>5, <2>6, <2>7, <2>8 DEF FirstDownload
<1>. QED
  BY <1>1, <1>2, <1>3, <1>4, <1>5, <1>6, SendingStep

(* The device sends its next record.                                        *)
LEMMA RecordStep == SessionInv /\ Device /\ DevRecord => SessionInv'
<1>. SUFFICES ASSUME SessionInv, Device, DevRecord PROVE SessionInv'
  OBVIOUS
<1>1. SessionTypeOK /\ SessionTypeOK' /\ Stored \in Nat /\ dev.next \in Nat
      /\ UNCHANGED <<state, expectedCount, recordCount, begins, got, doneBy>>
  BY SessionTypeStep, DeviceCases, SessionAssumptions DEF SessionInv, SessionNext, SessionTypeOK
<1>2. /\ ReadsAtMost /\ toDev' = toDev /\ dev.sending /\ dev.next < Stored
      /\ dev'.sending /\ dev'.next = dev.next + 1 /\ dev'.unlocked = dev.unlocked
      /\ dev'.erased = dev.erased /\ dev'.next <= Stored
  BY <1>1 DEF DevRecord, ReadsAtMost, SessionTypeOK
<1>. DEFINE pkt == Packet(UBX_ID_HISTORY, RACEBOX_PAYLOAD_LEN, dev.next)
<1>3. /\ pkt \in UbxPacket /\ pkt.cls = UBX_CLASS_RACEBOX
      /\ pkt.len = RACEBOX_PAYLOAD_LEN /\ pkt.arg = dev.next /\ pkt.arg \in History
      /\ ~IsCount(pkt) /\ IsRecord(pkt) /\ ~IsLastAck(pkt) /\ ~IsUnlockAck(pkt)
  <2>1. pkt \in UbxPacket
    BY <1>1, DevicePackets
  <2>2. dev.next \in History
    BY <1>1, <1>2 DEF History
  <2>. QED
    BY <2>1, <2>2 DEF Packet, IsCount, IsRecord, IsLastAck, IsUnlockAck
<1>4. PICK k : Arrived(pkt, k) /\ lost' = lost \cup Positions(SubSeq(fifo, 1, k))
  BY <1>1, <1>3, NotifyArrives DEF DevRecord
<1>. HIDE DEF pkt
<1>5. ASSUME begins <= 1 PROVE FirstDownload'
  <2>1. OneTrigger /\ Counting /\ Ascending /\ InTurn /\ Accounted /\ SilentSuccessIsComplete
    BY <1>5 DEF SessionInv, FirstDownload
  <2>2. state \notin {"IDLE", "UNLOCKING"} /\ NoTrigger /\ NoTrigger'
    BY <1>2, <2>1 DEF OneTrigger, NoTrigger
  <2>3. OneTrigger'
    BY <1>1, <2>2 DEF OneTrigger, NoTrigger
  <2>4. Counting'
    <3>1. \A i \in DOMAIN fifo' : i < Len(fifo') \/ i = Len(fifo')
      BY <1>4 DEF Arrived
    <3>2. \A i \in DOMAIN fifo' : IsCount(fifo'[i]) => fifo'[i].arg = Stored
      BY <1>3, <1>4, <2>1, <3>1 DEF Arrived, Counting
    <3>. QED
      BY <1>1, <1>2, <2>1, <3>2 DEF Counting, NoErase
  <2>5. Ascending'
    BY <1>1, <1>2, <1>3, <1>4, <2>1, ArrivedAscending
  <2>6. InTurn'
    <3>1. \A i \in DOMAIN fifo : ~IsLastAck(fifo[i])
      BY <1>2, <2>1 DEF InTurn
    <3>. QED
      BY <1>3, <1>4, <2>1, <3>1, ArrivedInTurn
  <2>7. Accounted'
    <3>1. dev.next \in Positions(fifo')
      BY <1>1, <1>3, <1>4, PositionsKept
    <3>2. Unsent \subseteq Unsent' \cup Positions(fifo')
      BY <1>1, <1>2, <3>1 DEF Unsent
    <3>. QED
      BY <1>1, <1>3, <1>4, <2>1, <3>2, ArrivedAccounted
  <2>8. SilentSuccessIsComplete'
    BY <1>1, <2>1 DEF SilentSuccessIsComplete, Handed
  <2>. QED
    BY <2>3, <2>4, <2>5, <2>6, <2>7, <2>8 DEF FirstDownload
<1>. QED
  BY <1>2, <1>3, <1>4, <1>5, SendingStep

(* The device sends less than it announced.                                 *)
LEMMA StopEarlyStep == SessionInv /\ Device /\ DevStopEarly => SessionInv'
<1>. SUFFICES ASSUME SessionInv, Device, DevStopEarly PROVE SessionInv'
  OBVIOUS
<1>1. SessionTypeOK /\ SessionTypeOK' /\ Stored \in Nat /\ dev.next \in Nat
      /\ UNCHANGED <<state, expectedCount, recordCount, hasSecurityCode, begins, got, doneBy>>
  BY SessionTypeStep, DeviceCases, SessionAssumptions DEF SessionInv, SessionNext, SessionTypeOK
<1>2. /\ fifo' = fifo /\ toDev' = toDev /\ dev.sending /\ dev.next < Stored
      /\ dev'.sending /\ dev'.next = Stored /\ dev'.unlocked = dev.unlocked
      /\ dev'.erased = dev.erased
      /\ lost' = lost \cup Unsent
  BY <1>1 DEF DevStopEarly, Unsent, SessionTypeOK
<1>3. Arrivals' /\ Lock' /\ Quiet' /\ Begun'
  BY <1>1, <1>2 DEF SessionInv, Arrivals, Lock, TriggerMeetsUnlockedDevice, Quiet, Begun
<1>4. ASSUME begins <= 1 PROVE FirstDownload'
  <2>1. OneTrigger /\ Counting /\ Ascending /\ InTurn /\ Accounted /\ SilentSuccessIsComplete
    BY <1>4 DEF SessionInv, FirstDownload
  <2>2. OneTrigger' /\ Counting'
    BY <1>1, <1>2, <2>1 DEF OneTrigger, Counting, NoTrigger, NoErase
  <2>3. \A r \in History : r < Stored
    BY <1>1 DEF History
  <2>4. Ascending'
    <3>1. \A i \in DOMAIN fifo : IsRecord(fifo[i]) => fifo[i].arg < Stored
      BY <2>3 DEF SessionInv, Arrivals
    <3>2. \A j \in DOMAIN got : got[j] < Stored
      BY <2>1, <2>3 DEF Ascending
    <3>. QED
      BY <1>1, <1>2, <2>1, <3>1, <3>2 DEF Ascending
  <2>5. InTurn'
    BY <1>2, <2>1 DEF InTurn
  <2>6. Accounted' /\ SilentSuccessIsComplete'
    BY <1>1, <1>2, <2>1 DEF Accounted, SilentSuccessIsComplete, Handed
  <2>. QED
    BY <2>2, <2>4, <2>5, <2>6 DEF FirstDownload
<1>. QED
  BY <1>1, <1>3, <1>4 DEF SessionInv, FirstDownload

(* The device has sent its records and says so.                             *)
LEMMA CompleteStep == SessionInv /\ Device /\ DevComplete => SessionInv'
<1>. SUFFICES ASSUME SessionInv, Device, DevComplete PROVE SessionInv'
  OBVIOUS
<1>1. SessionTypeOK /\ SessionTypeOK' /\ Stored \in Nat
      /\ UNCHANGED <<state, expectedCount, recordCount, begins, got, doneBy>>
  BY SessionTypeStep, DeviceCases, SessionAssumptions DEF SessionInv, SessionNext, SessionTypeOK
<1>2. /\ ReadsAtMost /\ toDev' = toDev /\ dev.sending /\ dev.next = Stored
      /\ ~dev'.sending /\ dev'.next = 0 /\ dev'.unlocked = dev.unlocked
      /\ dev'.erased = dev.erased /\ dev'.next <= Stored
  BY <1>1 DEF DevComplete, Idle, ReadsAtMost, SessionTypeOK
<1>. DEFINE pkt == Packet(UBX_ID_ACK, 2, UBX_ID_DOWNLOAD)
<1>3. /\ pkt \in UbxPacket /\ pkt.cls = UBX_CLASS_RACEBOX
      /\ ~IsCount(pkt) /\ ~IsRecord(pkt) /\ IsLastAck(pkt) /\ ~IsUnlockAck(pkt)
  BY DevicePackets DEF Packet, IsCount, IsRecord, IsLastAck, IsUnlockAck
<1>4. PICK k : Arrived(pkt, k) /\ lost' = lost \cup Positions(SubSeq(fifo, 1, k))
  BY <1>1, <1>3, NotifyArrives DEF DevComplete
<1>. HIDE DEF pkt
<1>5. ASSUME begins <= 1 PROVE FirstDownload'
  <2>1. OneTrigger /\ Counting /\ Ascending /\ InTurn /\ Accounted /\ SilentSuccessIsComplete
    BY <1>5 DEF SessionInv, FirstDownload
  <2>2. state \notin {"IDLE", "UNLOCKING"} /\ NoTrigger /\ NoTrigger'
    BY <1>2, <2>1 DEF OneTrigger, NoTrigger
  <2>3. OneTrigger'
    BY <1>1, <2>2 DEF OneTrigger, NoTrigger
  <2>4. Counting'
    <3>1. \A i \in DOMAIN fifo' : i < Len(fifo') \/ i = Len(fifo')
      BY <1>4 DEF Arrived
    <3>2. \A i \in DOMAIN fifo' : IsCount(fifo'[i]) => fifo'[i].arg = Stored
      BY <1>3, <1>4, <2>1, <3>1 DEF Arrived, Counting
    <3>. QED
      BY <1>1, <1>2, <2>1, <3>2 DEF Counting, NoErase
  <2>5. Ascending'
    BY <1>1, <1>2, <1>3, <1>4, <2>1, ArrivedAscending
  <2>6. InTurn'
    BY <1>2, <1>3, <1>4, <2>1, ArrivedInTurn
  <2>7. Accounted'
    <3>1. Unsent \subseteq Unsent' \cup Positions(fifo')
      BY <1>1, <1>2 DEF Unsent
    <3>. QED
      BY <1>1, <1>3, <1>4, <2>1, <3>1, ArrivedAccounted
  <2>8. SilentSuccessIsComplete'
    BY <1>1, <2>1 DEF SilentSuccessIsComplete, Handed
  <2>. QED
    BY <2>3, <2>4, <2>5, <2>6, <2>7, <2>8 DEF FirstDownload
<1>. QED
  BY <1>2, <1>3, <1>4, <1>5, SendingStep

------------------------------------------------------------------------------
(* The invariant, and what it implies.                                      *)

(* The session starts with nothing sent and nothing received.               *)
LEMMA SessionInitInv == SessionInit => SessionInv
<1>. SUFFICES ASSUME SessionInit PROVE SessionInv
  OBVIOUS
<1>1. /\ state = "IDLE" /\ recordCount = 0 /\ fifo = <<>> /\ toDev = <<>> /\ begins = 0
      /\ got = <<>> /\ lost = {} /\ doneBy = "none" /\ markers = 0 /\ drops = 0 /\ pc = "drain"
      /\ dev = [sending |-> FALSE, next |-> 0, unlocked |-> FALSE, erased |-> FALSE]
      /\ Stored \in Nat
  BY SessionAssumptions DEF SessionInit, Init, LinkInit
<1>2. SessionTypeOK
  <2>1. TypeOK
    BY InitTypeOK DEF SessionInit
  <2>2. polled \in BOOLEAN /\ connected \in BOOLEAN
    BY DEF SessionInit, LinkInit
  <2>3. dev \in [sending : BOOLEAN, next : Nat, unlocked : BOOLEAN, erased : BOOLEAN]
    BY <1>1
  <2>4. LinkTypeOK
    BY <1>1, <2>2 DEF LinkTypeOK
  <2>. QED
    BY <1>1, <2>1, <2>2, <2>3, <2>4 DEF SessionTypeOK
<1>3. ~dev.sending /\ ~dev.erased /\ dev.next = 0
  BY <1>1
<1>4. Arrivals /\ Lock /\ Quiet /\ Begun
  BY <1>1, <1>3 DEF Arrivals, Lock, TriggerMeetsUnlockedDevice, Quiet, Begun
<1>5. OneTrigger /\ Counting /\ Ascending /\ InTurn /\ Accounted /\ SilentSuccessIsComplete
  BY <1>1, <1>3 DEF OneTrigger, NoTrigger, Counting, NoErase, Ascending, InTurn, Accounted,
                    SilentSuccessIsComplete
<1>. QED
  BY <1>2, <1>4, <1>5 DEF SessionInv, FirstDownload

(* Every step keeps the invariant.                                          *)
LEMMA SessionInvStep == SessionInv /\ [SessionNext]_vars => SessionInv'
<1>. SUFFICES ASSUME SessionInv, [SessionNext]_vars PROVE SessionInv'
  OBVIOUS
<1>1. SessionTypeOK'
  BY SessionTypeStep DEF SessionInv
<1>2. CASE Reconnect
  BY <1>1, <1>2, StillStep DEF Reconnect, LinkUp, Silent, counts, loopVars, devVars, ghosts
<1>3. CASE LoopAgain
  BY <1>1, <1>3, StillStep DEF LoopAgain, Silent, counts, linkVars, devVars, ghosts
<1>4. CASE ClockTick
  BY <1>1, <1>4, StillStep DEF ClockTick, Tick, counts, linkVars, devVars, ghosts
<1>5. CASE UNCHANGED vars
  BY <1>1, <1>5, StillStep DEF vars, dlVars, linkVars, loopVars, devVars, ghosts
<1>6. CASE Device
  BY <1>6, UnlockStep, MarkerStep, DownloadStep, DevEraseStep, RecordStep, StopEarlyStep,
     CompleteStep DEF Device
<1>. QED
  BY <1>2, <1>3, <1>4, <1>5, <1>6, DispatchStep, WatchStep, BeginStep, SecurityCodeStep,
     EraseStep, DropStep DEF SessionNext

(* The download session, whatever its sizes, is at every moment in one of   *)
(* the situations SessionInv describes: RaceBoxDownloader's state, the      *)
(* FIFO, the air and the device agree on how far the download has come.     *)
THEOREM SessionInvariant == SessionSpec => []SessionInv
BY SessionInitInv, SessionInvStep, PTL DEF SessionSpec

(* Every variable of a session stays in its type.                           *)
THEOREM SessionTypeCorrect == SessionSpec => []SessionTypeOK
<1>1. SessionInv => SessionTypeOK
  BY DEF SessionInv
<1>. QED
  BY <1>1, SessionInvariant, PTL

(* Every step of a session that is not a call of begin() is one that a      *)
(* finished driver ignores.                                                 *)
LEMMA SessionStepIgnored ==
  ASSUME SessionTypeOK, SessionNext, state \in Finished,
         ~\E ok \in BOOLEAN : Begin(ok)
  PROVE  UNCHANGED <<state, counts>> /\ ~HandsOverRecord(calls')
<1>1. CASE Silent
  BY <1>1 DEF Silent, HandsOverRecord
<1>2. CASE Dispatch
  <2>1. PICK ok \in Results : OnPacket(Head(fifo), ok)
    BY <1>2 DEF Dispatch
  <2>2. ok \in BOOLEAN
    BY DEF Results
  <2>3. fifo \in Seq(UbxPacket) /\ fifo # <<>>
    BY <1>2 DEF Dispatch, SessionTypeOK, LinkTypeOK
  <2>4. Head(fifo) \in UbxPacket
    BY <2>3
  <2>. QED
    BY <2>1, <2>2, <2>4, FinishedIgnoresPackets
<1>3. CASE Watch
  BY <1>3 DEF Watch, Update, Watched, Finished, HandsOverRecord
<1>4. CASE AppBegin
  BY <1>4 DEF AppBegin, Results
<1>5. CASE AppSetSecurityCode
  BY <1>5 DEF AppSetSecurityCode, SetSecurityCode, HandsOverRecord
<1>6. CASE AppErase
  BY <1>6 DEF AppErase, EraseMemory, HandsOverRecord
<1>7. CASE ClockTick
  BY <1>7 DEF ClockTick, Tick, HandsOverRecord
<1>. QED
  BY <1>1, <1>2, <1>3, <1>4, <1>5, <1>6, <1>7
     DEF SessionNext, Reconnect, LoopAgain, Drop, Device, DevStep

(* In a session too, whatever the link and the device deliver late, nothing *)
(* but begin() moves a finished driver, changes its counts or makes it hand *)
(* over a record.                                                           *)
THEOREM SessionIgnoresLateAnswers == SessionSpec => LateAnswersIgnored
<1>1. SessionTypeOK /\ [SessionNext]_vars =>
        [(state \in Finished /\ ~\E ok \in BOOLEAN : Begin(ok))
           => (UNCHANGED <<state, counts>> /\ ~HandsOverRecord(calls'))]_dlVars
  BY SessionStepIgnored DEF vars
<1>. QED
  BY <1>1, SessionTypeCorrect, PTL DEF SessionSpec, LateAnswersIgnored

(* The download trigger never reaches a locked device once a security code  *)
(* is set.                                                                  *)
THEOREM TriggersMeetUnlockedDevice == SessionSpec => []TriggerMeetsUnlockedDevice
<1>1. SessionInv => TriggerMeetsUnlockedDevice
  BY DEF SessionInv, Lock
<1>. QED
  BY <1>1, SessionInvariant, PTL

(* A first download hands the records over in recording order, each at most *)
(* once.                                                                    *)
THEOREM RecordsComeInOrder == SessionSpec => []RecordsInOrder
<1>1. SessionInv => RecordsInOrder
  <2>. SUFFICES ASSUME SessionInv, begins <= 1, NEW i \in DOMAIN got, NEW j \in DOMAIN got, i < j
                PROVE  got[i] < got[j]
    BY DEF RecordsInOrder
  <2>1. got \in Seq(Nat) /\ got[j] - got[i] >= j - i
    BY DEF SessionInv, SessionTypeOK, FirstDownload, Ascending
  <2>2. got[i] \in Nat /\ got[j] \in Nat /\ i \in Nat /\ j \in Nat
    BY <2>1
  <2>. QED
    BY <2>1, <2>2
<1>. QED
  BY <1>1, SessionInvariant, PTL

(* The watchdog ends a first download as DONE only when every record was    *)
(* handed over.                                                             *)
THEOREM SilentSuccessIsEarned == SessionSpec => []SilentSuccessIsComplete
<1>1. SessionInv => SilentSuccessIsComplete
  <2>1. CASE begins <= 1
    BY <2>1 DEF SessionInv, FirstDownload
  <2>2. CASE ~(begins <= 1)
    BY <2>2 DEF SilentSuccessIsComplete
  <2>. QED
    BY <2>1, <2>2
<1>. QED
  BY <1>1, SessionInvariant, PTL

------------------------------------------------------------------------------
(* A session implements the abstract download of HistoryDownload.           *)

USE DEF Promise!History, Promise!Handed, Promise!hdVars

\* Records go missing, or nothing the abstract download tells apart happens.
LEMMA MissOrStutter ==
  ASSUME UNCHANGED <<state, got, begins>>, lost \subseteq lost', lost' \subseteq History
  PROVE  [Promise!HDNext]_(Promise!hdVars)
<1>1. Status' = Status /\ (begins <= 1)' = (begins <= 1)
  BY DEF Status
<1>2. CASE lost' = lost
  BY <1>1, <1>2
<1>3. CASE lost' # lost
  <2>1. lost' = lost \cup (lost' \ lost) /\ lost' \ lost # {} /\ lost' \ lost \in SUBSET History
    BY <1>3
  <2>2. Promise!Miss(lost' \ lost)
    BY <1>1, <2>1 DEF Promise!Miss
  <2>. QED
    BY <2>1, <2>2 DEF Promise!HDNext, History
<1>. QED
  BY <1>2, <1>3

\* A download fails.
LEMMA FailOrStutter ==
  ASSUME UNCHANGED <<got, begins, lost>>,
         \/ Status' = Status
         \/ Status = "running" /\ Status' = "error"
  PROVE  [Promise!HDNext]_(Promise!hdVars)
<1>1. (begins <= 1)' = (begins <= 1)
  OBVIOUS
<1>2. CASE Status' = Status
  BY <1>1, <1>2
<1>3. CASE Status = "running" /\ Status' = "error"
  BY <1>1, <1>3 DEF Promise!Fail, Promise!HDNext
<1>. QED
  BY <1>2, <1>3

\* A download succeeds.
LEMMA SucceedOnce ==
  ASSUME UNCHANGED <<got, begins, lost>>, Status = "running", Status' = "done",
         begins <= 1 => Handed \cup lost = History
  PROVE  Promise!HDNext
<1>1. (begins <= 1)' = (begins <= 1)
  OBVIOUS
<1>. QED
  BY <1>1 DEF Promise!Succeed, Promise!HDNext, Handed, History

(* A packet handled is a step of the promise, or none.                      *)
LEMMA DispatchKeepsPromise ==
  ASSUME SessionInv, Dispatch
  PROVE  [Promise!HDNext]_(Promise!hdVars)
<1>1. SessionTypeOK /\ Arrivals
  BY DEF SessionInv
<1>2. /\ Taken /\ UNCHANGED <<dev, lost, begins>>
      /\ Passed \/ CountTaken \/ RecordTaken \/ UnlockTaken \/ LastTaken
  BY <1>1, DispatchCases
<1>3. CASE Passed
  BY <1>2, <1>3, FailOrStutter DEF Passed, Status
<1>4. CASE CountTaken
  BY <1>2, <1>4, FailOrStutter DEF CountTaken, Status
<1>5. CASE RecordTaken
  <2>. DEFINE r == fifo[1].arg
  <2>1. r \in History
    BY <1>1, <1>2, <1>5 DEF Arrivals, Taken, RecordTaken
  <2>2. begins <= 1 => \A i \in DOMAIN got : got[i] < r
    BY <1>2, <1>5 DEF SessionInv, FirstDownload, Ascending, Taken, RecordTaken
  <2>3. (begins <= 1)' = (begins <= 1) /\ Status = "running" /\ Status' = Status
    BY <1>2, <1>5 DEF RecordTaken, Status
  <2>4. Promise!Deliver(r)
    BY <1>2, <1>5, <2>2, <2>3 DEF Promise!Deliver, RecordTaken
  <2>. QED
    BY <2>1, <2>4 DEF Promise!HDNext, History
<1>6. CASE UnlockTaken
  BY <1>2, <1>6, FailOrStutter DEF UnlockTaken, Status
<1>7. CASE LastTaken
  <2>1. ASSUME begins <= 1 PROVE Handed \cup lost = History
    <3>1. Ascending /\ InTurn /\ Accounted
      BY <2>1 DEF SessionInv, FirstDownload
    <3>2. ~dev.sending /\ \A j \in DOMAIN fifo : ~IsRecord(fifo[j])
      <4>1. \A j \in DOMAIN fifo : j \in Nat /\ ~(j < 1)
        BY <1>1 DEF SessionTypeOK, LinkTypeOK
      <4>2. 1 \in DOMAIN fifo /\ IsLastAck(fifo[1])
        BY <1>2, <1>7 DEF Taken, LastTaken
      <4>. QED
        BY <3>1, <4>1, <4>2 DEF InTurn
    <3>3. Positions(fifo) = {} /\ Unsent = {}
      BY <3>2 DEF Positions, Unsent, IsRecord
    <3>4. History \subseteq Handed \cup lost
      BY <1>7, <3>1, <3>3 DEF Accounted, LastTaken
    <3>5. Handed \subseteq History /\ lost \subseteq History
      BY <1>1, <3>1 DEF Ascending, Handed, SessionTypeOK
    <3>. QED
      BY <3>4, <3>5
  <2>2. Status = "running" /\ Status' = "done"
    BY <1>7 DEF LastTaken, Status
  <2>. QED
    BY <1>2, <1>7, <2>1, <2>2, SucceedOnce DEF LastTaken
<1>. QED
  BY <1>2, <1>3, <1>4, <1>5, <1>6, <1>7

(* So is update()'s look at the clock.                                      *)
LEMMA WatchKeepsPromise ==
  ASSUME SessionInv, Watch
  PROVE  [Promise!HDNext]_(Promise!hdVars)
<1>1. SessionTypeOK
  BY DEF SessionInv
<1>2. /\ UNCHANGED <<lost, begins, got>>
      /\ \/ state' = state
         \/ state \in {"REQUESTED", "RECEIVING"} /\ state' = "ERROR"
         \/ AllReceived /\ state' = "DONE"
  BY <1>1, WatchCases
<1>3. CASE AllReceived /\ state' = "DONE"
  <2>1. ASSUME begins <= 1 PROVE Handed \cup lost = History
    <3>1. Ascending /\ Counting
      BY <2>1 DEF SessionInv, FirstDownload
    <3>2. Len(got) >= Stored
      BY <1>3, <3>1 DEF AllReceived, Counting
    <3>3. Handed = History
      BY <1>1, <3>1, <3>2, AllHanded, SessionAssumptions
    <3>. QED
      BY <1>1, <3>3 DEF SessionTypeOK
  <2>. QED
    BY <1>2, <1>3, <2>1, SucceedOnce DEF AllReceived, Status
<1>. QED
  BY <1>2, <1>3, FailOrStutter DEF Status

(* So is begin().                                                           *)
LEMMA BeginKeepsPromise ==
  ASSUME SessionInv, AppBegin
  PROVE  Promise!HDNext
<1>1. SessionTypeOK /\ Quiet /\ Begun /\ begins \in Nat
  BY DEF SessionInv, SessionTypeOK
<1>2. /\ lost' = lost /\ begins' = begins + 1 /\ got' = <<>>
      /\ Status' \in {"running", "error"}
  BY <1>1, BeginCases DEF Status
<1>3. CASE begins = 0
  <2>1. Status = "idle" /\ got = <<>> /\ (begins <= 1)' = (begins <= 1)
    BY <1>1, <1>2, <1>3 DEF Quiet, Status
  <2>. QED
    BY <1>2, <2>1 DEF Promise!Start, Promise!HDNext
<1>4. CASE begins > 0
  <2>1. Status # "idle" /\ (begins <= 1)' = FALSE
    BY <1>1, <1>2, <1>4 DEF Begun, Status
  <2>. QED
    BY <1>2, <2>1 DEF Promise!Restart, Promise!HDNext
<1>. QED
  BY <1>1, <1>3, <1>4

(* Calls of begin(), overflows, link losses and late packets included, a    *)
(* session is a download as promised.                                       *)
THEOREM SessionKeepsPromise == SessionSpec => KeepsPromise
<1>1. SessionInit => Promise!HDInit
  <2>. SUFFICES ASSUME SessionInit PROVE Promise!HDInit
    OBVIOUS
  <2>1. Status = "idle" /\ got = <<>> /\ lost = {} /\ (begins <= 1) = TRUE
    BY DEF SessionInit, Init, Status
  <2>. QED
    BY <2>1 DEF Promise!HDInit
<1>2. SessionInv /\ SessionInv' /\ [SessionNext]_vars => [Promise!HDNext]_(Promise!hdVars)
  <2>. SUFFICES ASSUME SessionInv, SessionInv', [SessionNext]_vars
                PROVE  [Promise!HDNext]_(Promise!hdVars)
    OBVIOUS
  <2>1. SessionTypeOK /\ SessionTypeOK' /\ lost' \subseteq History
    BY DEF SessionInv, SessionTypeOK, History
  <2>2. CASE UNCHANGED <<state, got, begins, lost>>
    BY <2>1, <2>2, MissOrStutter
  <2>3. CASE Reconnect \/ LoopAgain \/ ClockTick \/ AppSetSecurityCode \/ AppErase \/ UNCHANGED vars
    <3>1. UNCHANGED <<state, got, begins, lost>>
      BY <2>1, <2>3, EraseCases
         DEF Reconnect, LoopAgain, ClockTick, AppSetSecurityCode, SetSecurityCode, Elsewhere, Tick, Silent,
             loopVars, ghosts, vars, dlVars
    <3>. QED
      BY <2>2, <3>1
  <2>4. CASE Drop
    BY <2>1, <2>4, MissOrStutter DEF Drop, Silent, loopVars
  <2>5. CASE Device
    <3>1. lost \subseteq lost'
      BY <2>5 DEF Device, DevUnlock, DevDownload, DevErase, DevRecord, DevStopEarly, DevMarker,
                  DevComplete, Notify
    <3>. QED
      BY <2>1, <2>5, <3>1, MissOrStutter, DeviceCases
  <2>. QED
    BY <2>3, <2>4, <2>5, DispatchKeepsPromise, WatchKeepsPromise, BeginKeepsPromise DEF SessionNext
<1>. QED
  BY <1>1, <1>2, SessionInvariant, PTL DEF SessionSpec, KeepsPromise, Promise!HDSpec
===============================================================================
