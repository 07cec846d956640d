---------------------------- MODULE LibTestProofs ----------------------------
(***************************************************************************)
(* Proofs about LibTest, for any FIFO, clock, limits, rates, table of      *)
(* benchmark sessions, and any number of typed commands and link losses:   *)
(* two drivers on one packet callback, and three waiting state machines.   *)
(*                                                                         *)
(* SystemInv is an inductive invariant: AirFits and FifoFits say what is   *)
(* under way between the drivers and the device, HeardFits what the        *)
(* application is told, BenchHasDuration what RECBENCH relies on.  OwnInv  *)
(* is inductive with it, and says that while a CONFIG TEST is undisturbed  *)
(* every start between the driver and the application is its own.  The     *)
(* drivers' modules are instances here, so their actions are classified    *)
(* anew, by what they write and which callbacks they run.                  *)
(***************************************************************************)
EXTENDS LibTest, DriverLemmas

RecTyped ==
  /\ recState \in Nat /\ cmdSentMs \in Time /\ pendingCmd \in Rec!Pending
  /\ isErasing \in BOOLEAN /\ eraseProgress \in Nat
  /\ config \in Nat /\ confirmedConfig \in Nat /\ securityCode \in Nat

DlTyped ==
  /\ state \in Dl!State /\ expectedCount \in Nat /\ recordCount \in Nat
  /\ lastRxMs \in Time /\ startRxMs \in Time

DeviceType == [unlocked : BOOLEAN, recording : {0, 1}, rate : Nat, owes : BOOLEAN,
               erasing : BOOLEAN, sending : BOOLEAN]

AppTyped ==
  /\ packetCb \in {"recorder", "downloader"}
  /\ downloadMode \in BOOLEAN /\ downloadDone \in BOOLEAN
  /\ pc \in {"setup", "serial", "drain", "react", "bench"} /\ heard \in Seq(Rec!Call)
  /\ phase \in Phase /\ captured1 \subseteq Nat /\ captured2 \subseteq Nat
  /\ undisturbed \in BOOLEAN /\ typed \in Nat
  /\ bench \in BenchState /\ session \in Nat
  /\ benchStartMs \in Time /\ lastStatusMs \in Time

\* Commands on the air: one that needs an unlocked device has it, and a recording
\* command says whether to record.
AirFits ==
  /\ CommandMeetsUnlockedDevice
  /\ \A i \in DOMAIN toDev : toDev[i].id = UBX_ID_REC_CONFIG => toDev[i].arg \in {0, 1}

\* Packets in the FIFO: an unlock ACK means an unlocked device, and a report of the
\* recording state is long enough to confirm a start.
MayArrive(pkt, unlocked) ==
  /\ IsUnlockAck(pkt) => unlocked
  /\ pkt.id = UBX_ID_STATE_CHANGE => pkt.len >= 12
FifoFits == \A i \in DOMAIN fifo : MayArrive(fifo[i], dev.unlocked)

\* The application hears of no start without its confirmation.
HeardFits == pc = "react" /\ Event = RECORDING_START => Confirmed # {}

SystemInv ==
  /\ RecTyped /\ DlTyped /\ millis \in Time /\ LinkTypeOK /\ dev \in DeviceType /\ AppTyped
  /\ AirFits /\ FifoFits /\ HeardFits /\ BenchHasDuration

USE DEF UBX_CLASS_RACEBOX, UBX_ID_ACK, UBX_ID_NACK, UBX_ID_HISTORY, UBX_ID_REC_STATUS, UBX_ID_DOWNLOAD,
        UBX_ID_ERASE, UBX_ID_REC_CONFIG, UBX_ID_STATE_CHANGE, UBX_ID_MEM_UNLOCK,
        Rec!UBX_CLASS_RACEBOX, Rec!UBX_ID_ACK, Rec!UBX_ID_NACK, Rec!UBX_ID_REC_STATUS, Rec!UBX_ID_ERASE,
        Rec!UBX_ID_REC_CONFIG, Rec!UBX_ID_STATE_CHANGE, Rec!UBX_ID_MEM_UNLOCK,
        Dl!UBX_CLASS_RACEBOX, Dl!UBX_ID_ACK, Dl!UBX_ID_NACK, Dl!UBX_ID_HISTORY, Dl!UBX_ID_DOWNLOAD,
        Dl!UBX_ID_STATE_CHANGE, Dl!UBX_ID_MEM_UNLOCK

------------------------------------------------------------------------------
(* What the drivers write.                                                  *)

\* The step writes cmd or nothing.
Writes(cmd) == tx' = <<cmd>> \/ tx' = <<>>

\* A command that may meet a locked device.
Harmless(cmd) == cmd.id # UBX_ID_REC_CONFIG /\ ~(cmd.id = UBX_ID_ERASE /\ cmd.len = 0)
WritesHarmless == \E cmd \in UbxPacket : Harmless(cmd) /\ Writes(cmd)

(* A driver's commands, as its own module builds them, are packets.         *)
LEMMA DriverPackets ==
  ASSUME NEW id \in Nat, NEW len \in Nat, NEW arg \in Nat
  PROVE  /\ Rec!Packet(id, len, arg) = Packet(id, len, arg)
         /\ Dl!Packet(id, len, arg) = Packet(id, len, arg)
         /\ Packet(id, len, arg) \in UbxPacket
         /\ Packet(id, len, arg).id = id /\ Packet(id, len, arg).len = len
         /\ Packet(id, len, arg).arg = arg
BY DEF Rec!Packet, Dl!Packet, Packet, UbxPacket

(* What the recorder and the downloader send unasked or to be unlocked.     *)
LEMMA HarmlessPackets ==
  /\ \A code \in Nat : /\ Rec!Packet(UBX_ID_MEM_UNLOCK, 4, code) \in UbxPacket
                       /\ Harmless(Rec!Packet(UBX_ID_MEM_UNLOCK, 4, code))
  /\ Rec!Packet(UBX_ID_REC_STATUS, 0, 0) \in UbxPacket /\ Harmless(Rec!Packet(UBX_ID_REC_STATUS, 0, 0))
  /\ Rec!Packet(UBX_ID_ERASE, 1, 0) \in UbxPacket /\ Harmless(Rec!Packet(UBX_ID_ERASE, 1, 0))
  /\ Dl!Packet(UBX_ID_MEM_UNLOCK, 4, 0) \in UbxPacket /\ Harmless(Dl!Packet(UBX_ID_MEM_UNLOCK, 4, 0))
  /\ Dl!Packet(UBX_ID_DOWNLOAD, 0, 0) \in UbxPacket /\ Harmless(Dl!Packet(UBX_ID_DOWNLOAD, 0, 0))
<1>1. ASSUME NEW id \in Nat, NEW len \in Nat, NEW arg \in Nat,
             id # UBX_ID_REC_CONFIG, ~(id = UBX_ID_ERASE /\ len = 0)
      PROVE  /\ Rec!Packet(id, len, arg) \in UbxPacket /\ Harmless(Rec!Packet(id, len, arg))
             /\ Dl!Packet(id, len, arg) \in UbxPacket /\ Harmless(Dl!Packet(id, len, arg))
  BY <1>1, DriverPackets DEF Harmless
<1>. QED
  BY <1>1

(* Writing nothing is harmless.                                             *)
LEMMA NothingWritten == tx' = <<>> => WritesHarmless
BY HarmlessPackets DEF WritesHarmless, Writes

(* The recorder's two ways of setting a time.                               *)
LEMMA RecorderSends ==
  ASSUME millis \in Time, NEW cmd \in UbxPacket, NEW since \in Time, NEW ok, Rec!Send(cmd, since, ok)
  PROVE  cmdSentMs' \in Time /\ Writes(cmd)
BY DEF Rec!Send, Writes

(* A request sends an unlock and leaves the recorder in its types.          *)
LEMMA RecorderRequested ==
  ASSUME RecTyped, millis \in Time, NEW cmd \in Rec!Pending, NEW ok, Rec!Request(cmd, ok), config' \in Nat
  PROVE  RecTyped' /\ millis' = millis /\ WritesHarmless
<1>1. /\ Rec!Send(Rec!Packet(UBX_ID_MEM_UNLOCK, 4, securityCode), cmdSentMs, ok)
      /\ pendingCmd' = cmd
      /\ UNCHANGED <<recState, confirmedConfig, isErasing, eraseProgress, securityCode, millis>>
  BY DEF Rec!Request, Rec!Remember, Rec!reports, Rec!erase
<1>2. cmdSentMs' \in Time /\ WritesHarmless
  BY <1>1, HarmlessPackets, RecorderSends DEF RecTyped, WritesHarmless
<1>. QED
  BY <1>1, <1>2 DEF RecTyped

\* The application calls the recorder.
CallsRecorder ==
  \E ok : \/ Rec!StartRecording(ok) \/ Rec!StopRecording(ok) \/ Rec!EraseMemory(ok)
          \/ Rec!CancelErase(ok) \/ Rec!QueryStatus(ok)
          \/ \E rate \in Nat : Rec!StartRecordingWith(rate, ok)

(* A call of the recorder writes nothing a locked device must not get.      *)
LEMMA RecorderCalled ==
  ASSUME RecTyped, millis \in Time, CallsRecorder
  PROVE  RecTyped' /\ millis' = millis /\ WritesHarmless
<1>1. PICK ok : \/ Rec!StartRecording(ok) \/ Rec!StopRecording(ok) \/ Rec!EraseMemory(ok)
                \/ Rec!CancelErase(ok) \/ Rec!QueryStatus(ok)
                \/ \E rate \in Nat : Rec!StartRecordingWith(rate, ok)
  BY DEF CallsRecorder
<1>2. CASE \E cmd \in Rec!Pending : Rec!Request(cmd, ok) /\ config' \in Nat
  BY <1>2, RecorderRequested
<1>3. CASE Rec!StartRecording(ok) \/ Rec!StopRecording(ok) \/ \E rate \in Nat : Rec!StartRecordingWith(rate, ok)
  <2>1. \E cmd \in Rec!Pending : Rec!Request(cmd, ok) /\ config' \in Nat
    BY <1>3 DEF Rec!StartRecording, Rec!StopRecording, Rec!StartRecordingWith, Rec!Pending, RecTyped
  <2>. QED
    BY <1>2, <2>1
<1>4. CASE Rec!EraseMemory(ok)
  <2>1. CASE Rec!MayErase
    <3>1. Rec!Request("ERASE", ok) /\ config' = config
      BY <1>4, <2>1 DEF Rec!EraseMemory
    <3>. QED
      BY <1>2, <3>1 DEF Rec!Pending, RecTyped
  <2>2. CASE ~Rec!MayErase
    <3>1. tx' = <<>> /\ UNCHANGED <<recState, cmdSentMs, pendingCmd, isErasing, eraseProgress, config,
                                   confirmedConfig, securityCode, millis>>
      BY <1>4, <2>2 DEF Rec!EraseMemory, Rec!reports, Rec!erase
    <3>. QED
      BY <3>1, NothingWritten DEF RecTyped
  <2>. QED
    BY <2>1, <2>2
<1>5. CASE Rec!CancelErase(ok)
  <2>1. /\ tx' = <<Rec!Packet(UBX_ID_ERASE, 1, 0)>> \/ tx' = <<>>
        /\ isErasing' = FALSE
        /\ UNCHANGED <<recState, cmdSentMs, pendingCmd, eraseProgress, config, confirmedConfig,
                       securityCode, millis>>
    BY <1>5 DEF Rec!CancelErase, Rec!reports, Rec!settings
  <2>2. WritesHarmless
    BY <2>1, HarmlessPackets DEF WritesHarmless, Writes
  <2>. QED
    BY <2>1, <2>2 DEF RecTyped
<1>6. CASE Rec!QueryStatus(ok)
  <2>1. /\ Rec!Send(Rec!Packet(UBX_ID_REC_STATUS, 0, 0), cmdSentMs, ok)
        /\ UNCHANGED <<recState, pendingCmd, isErasing, eraseProgress, config, confirmedConfig,
                       securityCode, millis>>
    BY <1>6 DEF Rec!QueryStatus, Rec!reports, Rec!settings, Rec!erase
  <2>2. cmdSentMs' \in Time /\ WritesHarmless
    BY <2>1, HarmlessPackets, RecorderSends DEF RecTyped, WritesHarmless
  <2>. QED
    BY <2>1, <2>2 DEF RecTyped
<1>. QED
  BY <1>1, <1>3, <1>4, <1>5, <1>6

(* Setting it up and polling it writes nothing.                             *)
LEMMA RecorderPolled ==
  ASSUME RecTyped, millis \in Time,
         \/ Rec!SetSecurityCode(SECURITY_CODE) \/ Rec!SetEraseProgressCallback
         \/ Rec!Update \/ Rec!Tick \/ Rec!Silent
  PROVE  RecTyped' /\ millis' \in Time /\ tx' = <<>>
<1>. USE DEF Rec!reports, Rec!settings, Rec!erase, RecTyped
<1>1. CASE Rec!SetSecurityCode(SECURITY_CODE)
  BY <1>1, LibTestAssumptions DEF Rec!SetSecurityCode
<1>2. CASE Rec!SetEraseProgressCallback \/ Rec!Silent
  BY <1>2 DEF Rec!SetEraseProgressCallback, Rec!Silent
<1>3. CASE Rec!Update
  BY <1>3, ZeroIsTime DEF Rec!Update, Rec!Pending
<1>4. CASE Rec!Tick
  BY <1>4, TimeLaws DEF Rec!Tick, Rec!Later, Later
<1>. QED
  BY <1>1, <1>2, <1>3, <1>4

------------------------------------------------------------------------------
(* What the drivers do with a packet.                                       *)

\* An unlock ACK may release a recording command, which says whether to record,
\* and at the rate configured.
WritesReleased ==
  \E cmd \in UbxPacket :
    Writes(cmd) /\ (cmd.id = UBX_ID_REC_CONFIG => cmd.arg \in {0, 1} /\ cmd.aux = config)

\* The rate a report of a start confirms.
ConfirmsRate(pkt, rate) == pkt.arg = 1 /\ rate = IF pkt.aux # 0 THEN pkt.aux ELSE config

\* The callbacks run: of a state change only the last one, and with a start that was
\* reported in full comes its confirmation.
CallsFit(pkt) ==
  /\ calls' \in Seq(Rec!Call)
  /\ ChangesState =>
       /\ pkt.id = UBX_ID_STATE_CHANGE
       /\ calls'[Len(calls')].data = RECORDING_START /\ pkt.len >= 12
            => \E i \in DOMAIN calls' : calls'[i].fn = "configConfirmed"
       /\ \A i \in DOMAIN calls' : calls'[i].fn = "configConfirmed" => ConfirmsRate(pkt, calls'[i].data)

(* No callback, or one of an erase's progress.                              *)
LEMMA FewCalls ==
  ASSUME NEW pkt,
         calls' = <<>> \/ \E n \in Nat : calls' = <<[fn |-> "eraseProgress", data |-> n]>>
  PROVE  CallsFit(pkt)
<1>1. CASE calls' = <<>>
  BY <1>1 DEF CallsFit, ChangesState
<1>2. CASE \E n \in Nat : calls' = <<[fn |-> "eraseProgress", data |-> n]>>
  <2>1. PICK n \in Nat : calls' = <<[fn |-> "eraseProgress", data |-> n]>>
    BY <1>2
  <2>2. [fn |-> "eraseProgress", data |-> n] \in Rec!Call
    BY DEF Rec!Call
  <2>3. calls' \in Seq(Rec!Call) /\ DOMAIN calls' = {1} /\ calls'[1].fn = "eraseProgress"
    BY <2>1, <2>2
  <2>. QED
    BY <2>3 DEF CallsFit, ChangesState
<1>. QED
  BY <1>1, <1>2

(* A report of the recording state.                                         *)
LEMMA RecorderTold ==
  ASSUME RecTyped, NEW pkt \in UbxPacket, Rec!StateChanged(pkt)
  PROVE  CallsFit(pkt) /\ confirmedConfig' \in Nat
<1>1. pkt.id = UBX_ID_STATE_CHANGE /\ pkt.arg \in Nat /\ pkt.aux \in Nat /\ pkt.len \in Nat
  BY DEF Rec!StateChanged, Rec!Is, UbxPacket
<1>2. confirmedConfig' \in Nat
  BY <1>1 DEF Rec!StateChanged, RecTyped
<1>. DEFINE changed == [fn |-> "stateChange", data |-> Rec!Event(pkt.arg)]
<1>3. changed \in Rec!Call /\ changed.fn = "stateChange"
  BY <1>1 DEF Rec!Event, Rec!Call
<1>4. changed.data = 1 => pkt.arg = 1
  BY <1>1 DEF Rec!Event
<1>. HIDE DEF changed
<1>5. CASE Rec!Confirms(pkt)
  <2>1. PICK c \in Nat : c = confirmedConfig'
    BY <1>2
  <2>. DEFINE confirmed == [fn |-> "configConfirmed", data |-> c]
  <2>2. calls' = <<confirmed>> \o <<changed>>
    BY <1>5, <2>1 DEF Rec!StateChanged, changed
  <2>3. confirmed \in Rec!Call /\ confirmed.fn = "configConfirmed" /\ confirmed.data = c
    BY DEF Rec!Call
  <2>4. ConfirmsRate(pkt, c)
    BY <1>5, <2>1 DEF Rec!StateChanged, Rec!Confirms, ConfirmsRate
  <2>. HIDE DEF confirmed
  <2>5. /\ calls' \in Seq(Rec!Call) /\ DOMAIN calls' = {1, 2}
        /\ calls'[1] = confirmed /\ calls'[2] = changed
    BY <1>3, <2>2, <2>3
  <2>. QED
    BY <1>1, <1>2, <1>3, <2>3, <2>4, <2>5 DEF CallsFit
<1>6. CASE ~Rec!Confirms(pkt)
  <2>1. calls' = <<>> \o <<changed>>
    BY <1>6 DEF Rec!StateChanged, changed
  <2>2. calls' \in Seq(Rec!Call) /\ DOMAIN calls' = {1} /\ Len(calls') = 1 /\ calls'[1] = changed
    BY <1>3, <2>1
  <2>3. pkt.len >= 12 => changed.data # RECORDING_START
    BY <1>1, <1>4, <1>6 DEF Rec!Confirms, RECORDING_START
  <2>. QED
    BY <1>1, <1>2, <1>3, <2>2, <2>3 DEF CallsFit
<1>. QED
  BY <1>5, <1>6

(* The recorder is handed a packet.                                         *)
LEMMA RecorderHears ==
  ASSUME RecTyped, millis \in Time, NEW pkt \in UbxPacket, NEW ok, Rec!OnPacket(pkt, ok)
  PROVE  /\ RecTyped' /\ millis' = millis /\ config' = config
         /\ WritesHarmless \/ (IsUnlockAck(pkt) /\ WritesReleased)
         /\ CallsFit(pkt)
<1>. USE DEF Rec!reports, Rec!settings, Rec!erase
<1>1. pkt.arg \in Nat /\ pkt.aux \in Nat /\ UNCHANGED <<config, securityCode, millis>>
  BY DEF Rec!OnPacket, UbxPacket
<1>2. CASE Rec!UnlockAcked(pkt, ok)
  <2>1. /\ IsUnlockAck(pkt) /\ pendingCmd' = "NONE" /\ calls' = <<>>
        /\ UNCHANGED <<recState, confirmedConfig>> /\ Rec!SendPending(0, ok)
    BY <1>2 DEF Rec!UnlockAcked, Rec!TakePending, Rec!Is, Rec!Answers, IsUnlockAck
  <2>2. \A enable \in {0, 1} : /\ Rec!RecConfig(enable) \in UbxPacket
                               /\ Rec!RecConfig(enable).arg = enable
                               /\ Rec!RecConfig(enable).aux = config
    BY DEF Rec!RecConfig, Rec!Packet, UbxPacket, RecTyped
  <2>3. CASE pendingCmd \in {"START", "STOP"}
    <3>1. PICK enable \in {0, 1} : Rec!Send(Rec!RecConfig(enable), 0, ok)
                                   /\ UNCHANGED <<isErasing, eraseProgress>>
      BY <2>1, <2>3 DEF Rec!SendPending
    <3>2. cmdSentMs' \in Time /\ Writes(Rec!RecConfig(enable))
      BY <2>2, <3>1, RecorderSends, ZeroIsTime
    <3>3. WritesReleased
      BY <2>2, <3>2 DEF WritesReleased
    <3>. QED
      BY <1>1, <2>1, <3>1, <3>2, <3>3, FewCalls DEF RecTyped, Rec!Pending
  <2>4. CASE pendingCmd = "ERASE"
    <3>1. /\ Rec!Send(Rec!Packet(UBX_ID_ERASE, 0, 0), 0, ok)
          /\ isErasing' \in {TRUE, isErasing} /\ eraseProgress' \in {0, eraseProgress}
      BY <2>1, <2>4 DEF Rec!SendPending, Rec!EraseBegins
    <3>2. Rec!Packet(UBX_ID_ERASE, 0, 0) \in UbxPacket
          /\ Rec!Packet(UBX_ID_ERASE, 0, 0).id = UBX_ID_ERASE
      BY DriverPackets
    <3>3. cmdSentMs' \in Time /\ Writes(Rec!Packet(UBX_ID_ERASE, 0, 0))
      BY <3>1, <3>2, RecorderSends, ZeroIsTime
    <3>4. WritesReleased
      BY <3>2, <3>3 DEF WritesReleased
    <3>5. isErasing' \in BOOLEAN
      BY <3>1 DEF RecTyped
    <3>. QED
      BY <1>1, <2>1, <3>1, <3>3, <3>4, <3>5, FewCalls DEF RecTyped, Rec!Pending
  <2>5. CASE pendingCmd = "NONE"
    <3>1. tx' = <<>> /\ cmdSentMs' = 0 /\ UNCHANGED <<isErasing, eraseProgress>>
      BY <2>1, <2>5 DEF Rec!SendPending
    <3>. QED
      BY <1>1, <2>1, <3>1, NothingWritten, ZeroIsTime, FewCalls DEF RecTyped, Rec!Pending
  <2>. QED
    BY <2>3, <2>4, <2>5 DEF RecTyped, Rec!Pending
<1>3. CASE Rec!EraseAcked(pkt) \/ Rec!EraseProgressed(pkt)
  <2>1. /\ tx' = <<>> /\ cmdSentMs' \in {0, cmdSentMs}
        /\ eraseProgress' \in Nat /\ UNCHANGED <<recState, confirmedConfig, pendingCmd>>
    BY <1>1, <1>3 DEF Rec!EraseAcked, Rec!EraseProgressed
  <2>2. calls' = <<>> \/ \E n \in Nat : calls' = <<[fn |-> "eraseProgress", data |-> n]>>
    BY <1>1, <1>3 DEF Rec!EraseAcked, Rec!EraseProgressed, Rec!ReportProgress
  <2>3. isErasing' \in BOOLEAN
    BY <1>3 DEF Rec!EraseAcked, Rec!EraseProgressed, RecTyped
  <2>. QED
    BY <1>1, <2>1, <2>2, <2>3, NothingWritten, ZeroIsTime, FewCalls DEF RecTyped
<1>4. CASE Rec!StateChanged(pkt)
  <2>1. /\ tx' = <<>> /\ recState' \in Nat
        /\ UNCHANGED <<cmdSentMs, isErasing, eraseProgress, pendingCmd>>
    BY <1>1, <1>4 DEF Rec!StateChanged
  <2>. QED
    BY <1>1, <1>4, <2>1, NothingWritten, RecorderTold DEF RecTyped
<1>5. CASE Rec!StatusReported(pkt) \/ Rec!OtherAcked(pkt) \/ Rec!Nacked(pkt) \/ Rec!Ignored(pkt)
  <2>1. /\ tx' = <<>> /\ calls' = <<>> /\ recState' \in Nat /\ cmdSentMs' \in {0, cmdSentMs}
        /\ pendingCmd' \in {"NONE", pendingCmd}
        /\ UNCHANGED <<confirmedConfig, isErasing, eraseProgress>>
    BY <1>1, <1>5 DEF Rec!StatusReported, Rec!OtherAcked, Rec!Nacked, Rec!Ignored, RecTyped
  <2>. QED
    BY <1>1, <2>1, NothingWritten, ZeroIsTime, FewCalls DEF RecTyped, Rec!Pending
<1>. QED
  BY <1>2, <1>3, <1>4, <1>5 DEF Rec!OnPacket

\* The downloader is called, polled or handed a packet.
MovesDownloader ==
  \/ \E ok : Dl!Begin(ok)
  \/ Dl!Update
  \/ \E pkt \in UbxPacket : \E ok : Dl!OnPacket(pkt, ok)

(* The downloader sends an unlock or the trigger at most.                   *)
LEMMA DownloaderMoves ==
  ASSUME DlTyped, millis \in Time, MovesDownloader
  PROVE  DlTyped' /\ millis' = millis /\ WritesHarmless
<1>. USE DEF Dl!counts, Dl!State
<1>1. ASSUME NEW ok, NEW since \in Time, Dl!SendDownloadTrigger(since, ok)
      PROVE  state' \in Dl!State /\ lastRxMs' \in Time /\ WritesHarmless
  BY <1>1, HarmlessPackets DEF Dl!SendDownloadTrigger, Dl!Send, WritesHarmless, Writes
<1>2. ASSUME NEW ok, Dl!SendUnlock(ok)
      PROVE  state' \in Dl!State /\ lastRxMs' \in Time /\ WritesHarmless
  BY <1>2, HarmlessPackets DEF Dl!SendUnlock, Dl!Send, WritesHarmless, Writes, DlTyped
<1>3. ASSUME NEW ok, Dl!Begin(ok)
      PROVE  DlTyped' /\ millis' = millis /\ WritesHarmless
  BY <1>1, <1>2, <1>3 DEF Dl!Begin, DlTyped
<1>4. ASSUME Dl!Update
      PROVE  DlTyped' /\ millis' = millis /\ WritesHarmless
  BY <1>4, NothingWritten DEF Dl!Update, DlTyped
<1>5. ASSUME NEW pkt \in UbxPacket, NEW ok, Dl!OnPacket(pkt, ok)
      PROVE  DlTyped' /\ millis' = millis /\ WritesHarmless
  <2>1. millis' = millis /\ pkt.arg \in Nat
    BY <1>5 DEF Dl!OnPacket, UbxPacket
  <2>2. CASE Dl!Unlocked(pkt, ok)
    BY <1>1, <2>1, <2>2 DEF Dl!Unlocked, DlTyped
  <2>3. CASE Dl!ForeignClass(pkt) \/ Dl!CountAnnounced(pkt) \/ Dl!RecordReceived(pkt) \/ Dl!BoundaryMarked(pkt)
             \/ Dl!Completed(pkt) \/ Dl!Refused(pkt) \/ Dl!Ignored(pkt)
    BY <2>1, <2>3, NothingWritten DEF Dl!ForeignClass, Dl!CountAnnounced, Dl!RecordReceived, Dl!BoundaryMarked,
       Dl!Completed, Dl!Refused, Dl!Ignored, DlTyped
  <2>. QED
    BY <1>5, <2>2, <2>3 DEF Dl!OnPacket
<1>. QED
  BY <1>3, <1>4, <1>5 DEF MovesDownloader

------------------------------------------------------------------------------
(* The link and the device.                                                 *)

(* A command written meets the device as it is.                             *)
LEMMA WriteKeeps ==
  ASSUME LinkTypeOK, AirFits, Transmit(tx'), dev' = dev,
         WritesHarmless \/ (dev.unlocked /\ WritesReleased)
  PROVE  AirFits' /\ toDev' \in Seq(UbxPacket)
<1>1. PICK cmd \in UbxPacket : /\ Writes(cmd)
                               /\ Harmless(cmd) \/ dev.unlocked
                               /\ cmd.id = UBX_ID_REC_CONFIG => cmd.arg \in {0, 1}
  BY DEF WritesHarmless, WritesReleased, Harmless
<1>2. Aired(cmd)
  BY <1>1, TransmitAirs DEF Writes
<1>. QED
  BY <1>1, <1>2 DEF Aired, AirFits, CommandMeetsUnlockedDevice, Harmless

(* A packet taken out leaves the others as they are.                        *)
LEMMA TakeKeeps ==
  ASSUME LinkTypeOK, FifoFits, fifo # <<>>, ExtractFrame, dev' = dev
  PROVE  /\ FifoFits' /\ fifo' \in Seq(UbxPacket)
         /\ Head(fifo) \in UbxPacket /\ MayArrive(Head(fifo), dev.unlocked)
<1>1. Taken
  BY ExtractTakes
<1>. QED
  BY <1>1 DEF Taken, FifoFits, MayArrive

\* What the device may do to the FIFO and the air.
DeviceAnswers ==
  /\ dev.unlocked => dev'.unlocked
  /\ toDev' = toDev \/ \E id : Reads(id)
  /\ fifo' = fifo \/ \E pkt \in UbxPacket : Notify(pkt) /\ MayArrive(pkt, dev'.unlocked)

(* An unlocked device stays unlocked, and what it sends fits.               *)
LEMMA AnswersKeep ==
  ASSUME LinkTypeOK, AirFits, FifoFits, DeviceAnswers
  PROVE  AirFits' /\ FifoFits' /\ fifo' \in Seq(UbxPacket) /\ toDev' \in Seq(UbxPacket)
<1>1. AirFits' /\ toDev' \in Seq(UbxPacket)
  <2>1. CASE toDev' = toDev
    BY <2>1 DEF AirFits, CommandMeetsUnlockedDevice, DeviceAnswers, LinkTypeOK
  <2>2. CASE \E id : Reads(id)
    <3>1. PICK id : Read(id)
      BY <2>2, DeviceReads DEF Reads
    <3>2. \A i \in DOMAIN toDev' : i + 1 \in DOMAIN toDev /\ toDev'[i] = toDev[i + 1]
      BY <3>1 DEF Read
    <3>3. toDev' \in Seq(UbxPacket) /\ (dev.unlocked => dev'.unlocked)
      BY <3>1 DEF Read, DeviceAnswers
    <3>. QED
      BY <3>2, <3>3 DEF AirFits, CommandMeetsUnlockedDevice
  <2>. QED
    BY <2>1, <2>2 DEF DeviceAnswers
<1>2. FifoFits' /\ fifo' \in Seq(UbxPacket)
  <2>1. \A pkt : MayArrive(pkt, dev.unlocked) => MayArrive(pkt, dev'.unlocked)
    BY DEF MayArrive, DeviceAnswers
  <2>2. CASE fifo' = fifo
    BY <2>1, <2>2 DEF FifoFits, LinkTypeOK
  <2>3. CASE \E pkt \in UbxPacket : Notify(pkt) /\ MayArrive(pkt, dev'.unlocked)
    <3>1. PICK pkt \in UbxPacket, k \in Nat : Push(pkt, k) /\ MayArrive(pkt, dev'.unlocked)
      BY <2>3, LinkAssumptions DEF Notify
    <3>2. Arrived(pkt, k)
      BY <3>1, PushArrives
    <3>3. ASSUME NEW i \in DOMAIN fifo' PROVE MayArrive(fifo'[i], dev'.unlocked)
      BY <2>1, <3>1, <3>2 DEF Arrived, FifoFits
    <3>. QED
      BY <3>2, <3>3 DEF Arrived, FifoFits
  <2>. QED
    BY <2>2, <2>3 DEF DeviceAnswers
<1>. QED
  BY <1>1, <1>2

(* What the device sends is a packet.                                       *)
LEMMA DevicePackets ==
  /\ \A id, cmd \in Nat : Packet(id, 2, cmd) \in UbxPacket
  /\ \A n \in Nat : Packet(UBX_ID_REC_STATUS, 12, n) \in UbxPacket
  /\ \A n \in Nat : Packet(UBX_ID_DOWNLOAD, 4, n) \in UbxPacket
  /\ \A n, rate \in Nat : [Packet(UBX_ID_STATE_CHANGE, 12, n) EXCEPT !.aux = rate] \in UbxPacket
BY DEF Packet, UbxPacket

(* The device stays in its type and answers as it may.                      *)
LEMMA DeviceMoves ==
  ASSUME LinkTypeOK, AirFits, dev \in DeviceType, Device
  PROVE  dev' \in DeviceType /\ DeviceAnswers
<1>1. ASSUME NEW id \in Nat, NEW cmd \in Nat, Answer(id, cmd),
             id # UBX_ID_STATE_CHANGE, id = UBX_ID_ACK /\ cmd = UBX_ID_MEM_UNLOCK => dev'.unlocked
      PROVE  \E pkt \in UbxPacket : Notify(pkt) /\ MayArrive(pkt, dev'.unlocked)
  <2>1. Packet(id, 2, cmd) \in UbxPacket /\ Packet(id, 2, cmd).id = id /\ Packet(id, 2, cmd).arg = cmd
    BY DriverPackets
  <2>. QED
    BY <1>1, <2>1 DEF Answer, MayArrive, IsUnlockAck
<1>2. CASE DevUnlock
  <2>1. Reads(UBX_ID_MEM_UNLOCK) /\ dev'.unlocked /\ dev' \in DeviceType
    BY <1>2 DEF DevUnlock, DeviceType
  <2>2. Answer(UBX_ID_ACK, UBX_ID_MEM_UNLOCK)
    BY <1>2 DEF DevUnlock
  <2>3. \E pkt \in UbxPacket : Notify(pkt) /\ MayArrive(pkt, dev'.unlocked)
    <3>1. Packet(UBX_ID_ACK, 2, UBX_ID_MEM_UNLOCK) \in UbxPacket
      BY DevicePackets
    <3>2. MayArrive(Packet(UBX_ID_ACK, 2, UBX_ID_MEM_UNLOCK), dev'.unlocked)
      BY <2>1 DEF MayArrive, Packet
    <3>. QED
      BY <2>2, <3>1, <3>2 DEF Answer
  <2>. QED
    BY <2>1, <2>3 DEF DeviceAnswers
<1>3. CASE DevRefuses
  BY <1>1, <1>3 DEF DevRefuses, DeviceAnswers
<1>4. CASE DevConfigure
  <2>1. Read(UBX_ID_REC_CONFIG)
    BY <1>4, DeviceReads DEF DevConfigure, Reads
  <2>2. Head(toDev).arg \in {0, 1} /\ Head(toDev).aux \in Nat
    BY <2>1 DEF Read, AirFits, UbxPacket
  <2>3. dev' \in DeviceType /\ dev'.unlocked = dev.unlocked
    BY <1>4, <2>2 DEF DevConfigure, DeviceType
  <2>. QED
    BY <1>1, <1>4, <2>3 DEF DevConfigure, DeviceAnswers
<1>5. CASE DevReport
  <2>. DEFINE pkt == [Packet(UBX_ID_STATE_CHANGE, 12, dev.recording) EXCEPT
                        !.aux = IF EchoesRate THEN dev.rate ELSE 0]
  <2>1. dev' \in DeviceType /\ dev'.unlocked = dev.unlocked /\ Notify(pkt) /\ toDev' = toDev
    BY <1>5 DEF DevReport, DeviceType
  <2>2. dev.recording \in Nat /\ (IF EchoesRate THEN dev.rate ELSE 0) \in Nat
    BY DEF DeviceType
  <2>3. pkt \in UbxPacket
    BY <2>2, DevicePackets
  <2>4. pkt.id = UBX_ID_STATE_CHANGE /\ pkt.len = 12
    BY DEF Packet
  <2>. HIDE DEF pkt
  <2>5. MayArrive(pkt, dev'.unlocked)
    BY <2>4 DEF MayArrive, IsUnlockAck
  <2>. QED
    BY <2>1, <2>3, <2>5 DEF DeviceAnswers
<1>6. CASE DevStatus
  <2>1. Packet(UBX_ID_REC_STATUS, 12, dev.recording) \in UbxPacket
    BY DevicePackets DEF DeviceType
  <2>2. MayArrive(Packet(UBX_ID_REC_STATUS, 12, dev.recording), dev'.unlocked)
    BY DEF MayArrive, IsUnlockAck, Packet
  <2>. QED
    BY <1>6, <2>1, <2>2 DEF DevStatus, DeviceAnswers
<1>7. CASE DevErase
  <2>1. dev' \in DeviceType /\ dev'.unlocked = dev.unlocked
    BY <1>7 DEF DevErase, DeviceType
  <2>. QED
    BY <1>7, <2>1 DEF DevErase, DeviceAnswers
<1>8. CASE DevErased
  <2>1. dev' \in DeviceType /\ dev'.unlocked = dev.unlocked
    BY <1>8 DEF DevErased, DeviceType
  <2>. QED
    BY <1>1, <1>8, <2>1 DEF DevErased, DeviceAnswers
<1>9. CASE DevDownload
  <2>1. dev' \in DeviceType /\ dev'.unlocked = dev.unlocked
    BY <1>9 DEF DevDownload, DeviceType
  <2>2. Packet(UBX_ID_DOWNLOAD, 4, 0) \in UbxPacket
    BY DevicePackets
  <2>3. MayArrive(Packet(UBX_ID_DOWNLOAD, 4, 0), dev'.unlocked)
    BY DEF MayArrive, IsUnlockAck, Packet
  <2>. QED
    BY <1>9, <2>1, <2>2, <2>3 DEF DevDownload, DeviceAnswers
<1>10. CASE DevComplete
  <2>1. dev' \in DeviceType /\ dev'.unlocked = dev.unlocked
    BY <1>10 DEF DevComplete, DeviceType
  <2>. QED
    BY <1>1, <1>10, <2>1 DEF DevComplete, DeviceAnswers
<1>. QED
  BY <1>2, <1>3, <1>4, <1>5, <1>6, <1>7, <1>8, <1>9, <1>10 DEF Device

(* A link loss locks the device, and leaves nothing that says otherwise.    *)
LEMMA DropKeeps ==
  ASSUME LinkTypeOK, dev \in DeviceType, Drop
  PROVE  LinkTypeOK' /\ AirFits' /\ FifoFits' /\ dev' \in DeviceType
<1>1. fifo' = <<>> /\ toDev' = <<>> /\ connected' = FALSE /\ drops' = drops + 1
  BY DEF Drop, LinkDown, ClearFifo
<1>2. DOMAIN fifo' = {} /\ DOMAIN toDev' = {}
  BY <1>1
<1>3. connected' \in BOOLEAN
  BY <1>1
<1>4. dev' \in DeviceType
  BY DEF Drop, DeviceType
<1>. QED
  BY <1>1, <1>2, <1>3, <1>4 DEF LinkTypeOK, AirFits, FifoFits, CommandMeetsUnlockedDevice

------------------------------------------------------------------------------
(* The application.                                                         *)

\* One driver runs, or none does.
DriverStep ==
  \/ CallsRecorder /\ UNCHANGED dlOnly
  \/ MovesDownloader /\ UNCHANGED recOnly
  \/ Rec!Update /\ UNCHANGED dlOnly
  \/ Silent

(* The drivers stay in their types and write nothing a locked device must   *)
(* not get.                                                                 *)
LEMMA DriverKeeps ==
  ASSUME RecTyped, DlTyped, millis \in Time, DriverStep
  PROVE  RecTyped' /\ DlTyped' /\ millis' \in Time /\ WritesHarmless
<1>1. UNCHANGED dlOnly => DlTyped'
  BY DEF DlTyped, dlOnly
<1>2. UNCHANGED recOnly => RecTyped'
  BY DEF RecTyped, recOnly
<1>3. CASE CallsRecorder /\ UNCHANGED dlOnly
  BY <1>1, <1>3, RecorderCalled
<1>4. CASE MovesDownloader /\ UNCHANGED recOnly
  BY <1>2, <1>4, DownloaderMoves
<1>5. CASE Rec!Update /\ UNCHANGED dlOnly
  BY <1>1, <1>5, RecorderPolled, NothingWritten
<1>6. CASE Silent
  <2>1. Rec!Silent /\ UNCHANGED dlOnly
    BY <1>6 DEF Silent, Dl!Silent, Dl!counts, dlOnly
  <2>. QED
    BY <1>1, <2>1, RecorderPolled, NothingWritten
<1>. QED
  BY <1>3, <1>4, <1>5, <1>6 DEF DriverStep

(* The application's ways of calling the recorder.                          *)
LEMMA RecorderCalls ==
  /\ Starts \/ StartsAt(DefaultRate) \/ StartsAt(TestRate) \/ StartsAt(BenchRate)
       \/ Stops \/ QueriesStatus => DriverStep
  /\ \A ok : (Rec!EraseMemory(ok) \/ Rec!CancelErase(ok)) /\ UNCHANGED dlOnly => DriverStep
  /\ \A ok : Dl!Begin(ok) /\ UNCHANGED recOnly => DriverStep
<1>1. DefaultRate \in Nat /\ TestRate \in Nat /\ BenchRate \in Nat
  BY LibTestAssumptions
<1>2. \A ok : /\ Rec!StartRecording(ok) \/ Rec!StopRecording(ok) \/ Rec!EraseMemory(ok)
                  \/ Rec!CancelErase(ok) \/ Rec!QueryStatus(ok) => CallsRecorder
              /\ \A rate \in Nat : Rec!StartRecordingWith(rate, ok) => CallsRecorder
              /\ Dl!Begin(ok) => MovesDownloader
  BY DEF CallsRecorder, MovesDownloader
<1>. QED
  BY <1>1, <1>2 DEF Starts, StartsAt, Stops, QueriesStatus, DriverStep

\* What the application's state machines keep.
AppInv == AppTyped /\ HeardFits /\ BenchHasDuration

(* A typed command: a test or a benchmark starts only when none is running. *)
LEMMA CommandKeeps ==
  ASSUME AppInv, Typed
  PROVE  AppInv' /\ DriverStep /\ Elsewhere /\ fifo' = fifo
<1>. USE DEF mode, configTest, captures, recBench
<1>1. Elsewhere /\ UNCHANGED <<fifo, pc, heard>> /\ typed' = typed + 1 /\ pc = "serial" /\ Command
  BY DEF Typed
<1>2. /\ packetCb' \in {"recorder", "downloader", packetCb}
      /\ downloadMode' \in {TRUE, FALSE, downloadMode} /\ downloadDone' \in {FALSE, downloadDone}
      /\ DriverStep
  <2>1. OnRecorder => /\ packetCb' \in {"recorder", packetCb} /\ downloadDone' = downloadDone
                      /\ downloadMode' \in {FALSE, downloadMode}
    BY DEF OnRecorder, activateRecorder
  <2>2. CASE Status \/ RecStart \/ RecStop \/ RecBench \/ ConfigTest \/ ConfigVerify
    BY <2>1, <2>2, RecorderCalls DEF Status, RecStart, RecStop, RecBench, ConfigTest, ConfigVerify
  <2>3. CASE Erase
    BY <2>1, <2>3, RecorderCalls DEF Erase
  <2>4. CASE EraseCancel \/ RecBenchStop
    BY <2>4, RecorderCalls DEF EraseCancel, RecBenchStop
  <2>5. CASE Watch
    BY <2>5 DEF Watch, activateRecorder, DriverStep
  <2>6. CASE Download
    BY <2>6, RecorderCalls DEF Download
  <2>. QED
    BY <1>1, <2>2, <2>3, <2>4, <2>5, <2>6 DEF Command
<1>3. \/ UNCHANGED <<phase, captured1, captured2>>
      \/ phase' = "CT_WAIT_START1" /\ captured1' = {} /\ captured2' = {}
      \/ phase' = "CV_WAIT_START" /\ UNCHANGED <<captured1, captured2>>
  BY <1>1 DEF Command, Status, RecStart, RecStop, Erase, EraseCancel, RecBench, RecBenchStop, Watch,
              ConfigTest, ConfigVerify, Download
<1>4. /\ UNCHANGED <<benchStartMs, lastStatusMs>>
      /\ \/ UNCHANGED <<bench, session>>
         \/ bench' = "STARTING" /\ session' = 0
         \/ bench' = "IDLE" /\ session' = session
  BY <1>1 DEF Command, Status, RecStart, RecStop, Erase, EraseCancel, RecBench, RecBenchStop, Watch,
              ConfigTest, ConfigVerify, Download
<1>5. AppTyped'
  <2>1. downloadMode' \in BOOLEAN /\ downloadDone' \in BOOLEAN
    BY <1>2 DEF AppInv, AppTyped
  <2>2. captured1' \subseteq Nat /\ captured2' \subseteq Nat
    BY <1>3 DEF AppInv, AppTyped
  <2>3. undisturbed' \in BOOLEAN
    <3>1. undisturbed' = undisturbed \/ undisturbed' = FALSE \/ undisturbed' = ~StartUnderWay
      BY <1>1 DEF Command, Status, RecStart, RecStop, Erase, EraseCancel, RecBench, RecBenchStop, Watch,
                  ConfigTest, ConfigVerify, Download
    <3>. QED
      BY <3>1, Zenon DEF AppInv, AppTyped
  <2>4. phase' \in Phase /\ bench' \in BenchState
    BY <1>3, <1>4 DEF AppInv, AppTyped, Phase, BenchState
  <2>. QED
    BY <1>1, <1>2, <1>4, <2>1, <2>2, <2>3, <2>4 DEF AppInv, AppTyped
<1>6. HeardFits'
  BY <1>1 DEF HeardFits
<1>7. BenchHasDuration'
  <2>1. 0 < Len(Durations)
    BY LibTestAssumptions
  <2>. QED
    BY <1>3, <1>4, <2>1 DEF AppInv, BenchHasDuration
<1>. QED
  BY <1>1, <1>2, <1>5, <1>6, <1>7 DEF AppInv

(* The callbacks of a state change: a phase is followed by a phase, and a   *)
(* benchmark goes on only to a session it has a duration for.               *)
LEMMA ReactKeeps ==
  ASSUME AppInv, millis \in Time, React
  PROVE  AppInv' /\ DriverStep /\ Elsewhere /\ fifo' = fifo
<1>. USE DEF mode, recBench
<1>1. /\ pc = "react" /\ pc' = "drain" /\ heard' = <<>> /\ Elsewhere /\ Capture
      /\ UNCHANGED <<fifo, packetCb, downloadMode, downloadDone, typed>>
      /\ AdvancePhase \/ BenchStarted \/ BenchStopped \/ Unconcerned
  BY DEF React
<1>2. captured1' \subseteq Nat /\ captured2' \subseteq Nat /\ undisturbed' \in BOOLEAN
  <2>1. \A i \in DOMAIN heard : heard[i].data \in Nat
    <3>1. heard \in Seq(Rec!Call)
      BY DEF AppInv, AppTyped
    <3>2. \A i \in DOMAIN heard : heard[i] \in Rec!Call
      BY <3>1
    <3>. QED
      BY <3>2 DEF Rec!Call
  <2>2. Confirmed \subseteq Nat
    BY <2>1 DEF Confirmed
  <2>3. captured1' \in {Confirmed, captured1} /\ captured2' \in {Confirmed, captured2}
    BY <1>1 DEF Capture
  <2>4. undisturbed' = (undisturbed /\ phase' # "IDLE")
    BY <1>1 DEF Capture
  <2>. QED
    BY <2>2, <2>3, <2>4 DEF AppInv, AppTyped
<1>3. heard' \in Seq(Rec!Call)
  BY <1>1
<1>4. DriverStep
  <2>1. Silent => DriverStep
    BY DEF DriverStep
  <2>. QED
    BY <1>1, <2>1, RecorderCalls DEF AdvancePhase, BenchStarted, BenchStopped, Unconcerned
<1>5. phase' \in Phase
  <2>1. phase \in Phase
    BY DEF AppInv, AppTyped
  <2>2. CASE AdvancePhase
    BY <2>1, <2>2 DEF AdvancePhase, Awaited, Transition, Phase
  <2>. QED
    BY <1>1, <2>1, <2>2 DEF BenchStarted, BenchStopped, Unconcerned
<1>6. /\ bench' \in BenchState /\ session' \in Nat /\ benchStartMs' \in Time /\ lastStatusMs' \in Time
      /\ BenchHasDuration'
  <2>1. /\ bench \in BenchState /\ session \in Nat /\ benchStartMs \in Time /\ lastStatusMs \in Time
        /\ bench # "IDLE" => session < Len(Durations)
    BY DEF AppInv, AppTyped, BenchHasDuration
  <2>2. CASE AdvancePhase \/ Unconcerned
    BY <2>1, <2>2 DEF AdvancePhase, Unconcerned, BenchHasDuration
  <2>3. CASE BenchStarted
    BY <2>1, <2>3 DEF BenchStarted, BenchState, BenchHasDuration
  <2>4. CASE BenchStopped
    BY <2>1, <2>4 DEF BenchStopped, MoreSessions, BenchState, BenchHasDuration
  <2>. QED
    BY <1>1, <2>2, <2>3, <2>4
<1>7. AppTyped'
  BY <1>1, <1>2, <1>3, <1>5, <1>6 DEF AppInv, AppTyped
<1>8. HeardFits'
  BY <1>1 DEF HeardFits
<1>. QED
  BY <1>1, <1>4, <1>5, <1>6, <1>7, <1>8 DEF AppInv

(* The RECBENCH tick moves between its states within a session.             *)
LEMMA BenchKeeps ==
  ASSUME AppInv, millis \in Time, BenchTick
  PROVE  AppInv' /\ DriverStep /\ Elsewhere /\ fifo' = fifo
<1>1. /\ pc' = "bench" /\ Elsewhere
      /\ UNCHANGED <<fifo, heard, packetCb, downloadMode, downloadDone, phase, captured1, captured2,
                     undisturbed, session, benchStartMs, typed>>
      /\ \/ StatusDue /\ lastStatusMs' = millis /\ QueriesStatus /\ bench' = bench
         \/ DurationReached /\ bench' = "STOPPING" /\ Stops /\ lastStatusMs' = lastStatusMs
         \/ PauseOver /\ bench' = "STARTING" /\ StartsAt(BenchRate) /\ lastStatusMs' = lastStatusMs
  BY DEF BenchTick, mode, configTest, captures
<1>2. DriverStep
  BY <1>1, RecorderCalls
<1>3. bench' \in BenchState /\ lastStatusMs' \in Time
  BY <1>1 DEF AppInv, AppTyped, BenchState
<1>4. bench' # "IDLE" => bench # "IDLE"
  BY <1>1 DEF DurationReached, PauseOver
<1>5. AppTyped' /\ HeardFits'
  BY <1>1, <1>3 DEF AppInv, AppTyped, HeardFits
<1>6. BenchHasDuration'
  BY <1>1, <1>4 DEF AppInv, BenchHasDuration
<1>. QED
  BY <1>1, <1>2, <1>5, <1>6 DEF AppInv

(* A pass of loop() ends with the poll of one driver.                       *)
LEMMA PollKeeps ==
  ASSUME AppInv, Poll
  PROVE  AppInv' /\ DriverStep /\ Elsewhere /\ fifo' = fifo
<1>1. /\ pc' = "serial" /\ Elsewhere
      /\ UNCHANGED <<fifo, heard, phase, captured1, captured2, undisturbed, bench, session,
                     benchStartMs, lastStatusMs, typed>>
  BY DEF Poll, configTest, captures, recBench
<1>2. DriverStep
  BY DEF Poll, DriverStep, MovesDownloader
<1>3. /\ packetCb' \in {"recorder", packetCb}
      /\ downloadMode' \in {FALSE, downloadMode} /\ downloadDone' \in {TRUE, downloadDone}
  BY DEF Poll, mode
<1>4. downloadMode' \in BOOLEAN /\ downloadDone' \in BOOLEAN
  BY <1>3 DEF AppInv, AppTyped
<1>5. AppTyped' /\ HeardFits'
  BY <1>1, <1>3, <1>4 DEF AppInv, AppTyped, HeardFits
<1>6. BenchHasDuration'
  BY <1>1 DEF AppInv, BenchHasDuration
<1>. QED
  BY <1>1, <1>2, <1>5, <1>6 DEF AppInv

------------------------------------------------------------------------------
(* The invariant.                                                           *)

(* The next packet goes to the driver that took the callback last.          *)
LEMMA DispatchKeeps ==
  ASSUME SystemInv, Dispatch
  PROVE  SystemInv'
<1>1. /\ fifo # <<>> /\ ExtractFrame /\ Transmit(tx') /\ pc = "drain"
      /\ UNCHANGED <<connected, drops, dev, mode, configTest, recBench, typed>>
      /\ \/ pc' = "react" /\ heard' = calls' /\ ChangesState
         \/ UNCHANGED <<pc, heard>>
  BY DEF Dispatch, Elsewhere, app
<1>2. LinkTypeOK /\ FifoFits /\ AirFits /\ dev \in DeviceType /\ AppTyped
  BY DEF SystemInv
<1>3. PICK pkt \in UbxPacket : pkt = Head(fifo) /\ MayArrive(pkt, dev.unlocked)
  BY <1>1, <1>2, TakeKeeps
<1>4. FifoFits' /\ fifo' \in Seq(UbxPacket)
  BY <1>1, <1>2, TakeKeeps
<1>5. /\ RecTyped' /\ DlTyped' /\ millis' \in Time
      /\ WritesHarmless \/ (dev.unlocked /\ WritesReleased)
      /\ packetCb = "recorder" => CallsFit(pkt)
      /\ ChangesState /\ pc' = "react" => packetCb = "recorder"
  <2>1. PICK ok : \/ packetCb = "recorder" /\ Rec!OnPacket(pkt, ok) /\ UNCHANGED dlOnly
                  \/ packetCb = "downloader" /\ Dl!OnPacket(pkt, ok) /\ UNCHANGED recOnly
    BY <1>3 DEF Dispatch
  <2>2. pc' = "react" => packetCb = "recorder"
    BY <1>1 DEF Dispatch
  <2>3. CASE packetCb = "recorder" /\ Rec!OnPacket(pkt, ok) /\ UNCHANGED dlOnly
    <3>1. DlTyped'
      BY <2>3 DEF SystemInv, DlTyped, dlOnly
    <3>2. IsUnlockAck(pkt) => dev.unlocked
      BY <1>3 DEF MayArrive
    <3>. QED
      BY <2>2, <2>3, <3>1, <3>2, RecorderHears DEF SystemInv
  <2>4. CASE packetCb = "downloader" /\ Dl!OnPacket(pkt, ok) /\ UNCHANGED recOnly
    <3>1. RecTyped'
      BY <2>4 DEF SystemInv, RecTyped, recOnly
    <3>2. MovesDownloader
      BY <2>4 DEF MovesDownloader
    <3>. QED
      BY <2>2, <2>4, <3>1, <3>2, DownloaderMoves DEF SystemInv
  <2>. QED
    BY <2>1, <2>3, <2>4
<1>6. AirFits' /\ toDev' \in Seq(UbxPacket)
  BY <1>1, <1>2, <1>5, WriteKeeps
<1>7. LinkTypeOK' /\ dev' \in DeviceType
  BY <1>1, <1>2, <1>4, <1>6 DEF LinkTypeOK
<1>8. CASE pc' = "react" /\ heard' = calls' /\ ChangesState
  <2>1. CallsFit(pkt) /\ pkt.id = UBX_ID_STATE_CHANGE /\ pkt.len >= 12
    BY <1>3, <1>5, <1>8 DEF CallsFit, MayArrive
  <2>2. heard' \in Seq(Rec!Call)
    BY <1>8, <2>1 DEF CallsFit
  <2>3. HeardFits'
    BY <1>8, <2>1 DEF CallsFit, HeardFits, Event, Confirmed
  <2>4. AppTyped'
    BY <1>1, <1>2, <1>8, <2>2 DEF AppTyped, mode, configTest, captures, recBench
  <2>. QED
    BY <1>1, <1>4, <1>5, <1>6, <1>7, <2>3, <2>4
       DEF SystemInv, BenchHasDuration, configTest, recBench
<1>9. CASE UNCHANGED <<pc, heard>>
  <2>1. AppTyped'
    BY <1>1, <1>2, <1>9 DEF AppTyped, mode, configTest, captures, recBench
  <2>2. HeardFits'
    BY <1>1, <1>9 DEF HeardFits
  <2>. QED
    BY <1>1, <1>4, <1>5, <1>6, <1>7, <2>1, <2>2
       DEF SystemInv, BenchHasDuration, configTest, recBench
<1>. QED
  BY <1>1, <1>8, <1>9

(* The system starts locked, with nothing under way.                        *)
LEMMA SystemInvInit == SystemInit => SystemInv
<1>. SUFFICES ASSUME SystemInit PROVE SystemInv
  OBVIOUS
<1>1. RecTyped /\ millis \in Time
  <2>1. millis \in Time
    BY DEF SystemInit, Rec!Init, Rec!Time, Time
  <2>2. /\ recState = 255 /\ cmdSentMs = 0 /\ pendingCmd = "NONE" /\ isErasing = FALSE /\ eraseProgress = 0
        /\ config = DefaultRate /\ confirmedConfig = DefaultRate /\ securityCode = 123456
    BY DEF SystemInit, Rec!Init, Rec!UNKNOWN
  <2>3. DefaultRate \in Nat
    BY LibTestAssumptions
  <2>4. isErasing \in BOOLEAN
    <3>1. isErasing = FALSE
      BY <2>2
    <3>2. isErasing \in {FALSE}
      BY <3>1, Zenon
    <3>3. {FALSE} \subseteq BOOLEAN
      BY Zenon
    <3>. QED
      BY <3>2, <3>3
  <2>. QED
    BY <2>1, <2>2, <2>3, <2>4, ZeroIsTime DEF RecTyped, Rec!Pending
<1>2. DlTyped
  BY ZeroIsTime DEF SystemInit, Dl!Init, DlTyped, Dl!State
<1>3. fifo = <<>> /\ toDev = <<>> /\ DOMAIN fifo = {} /\ DOMAIN toDev = {}
  BY DEF SystemInit, LinkInit
<1>4. connected \in BOOLEAN /\ drops = 0
  BY DEF SystemInit, LinkInit
<1>5. LinkTypeOK
  BY <1>3, <1>4 DEF LinkTypeOK
<1>6. dev \in DeviceType
  BY LibTestAssumptions DEF SystemInit, DeviceType
<1>7. /\ downloadMode \in BOOLEAN /\ downloadDone \in BOOLEAN /\ undisturbed \in BOOLEAN
      /\ captured1 \subseteq Nat /\ captured2 \subseteq Nat
  BY DEF SystemInit
<1>8. AppTyped
  BY <1>7, ZeroIsTime DEF SystemInit, AppTyped, Phase, BenchState
<1>9. HeardFits /\ BenchHasDuration
  BY DEF SystemInit, HeardFits, BenchHasDuration
<1>. QED
  BY <1>1, <1>2, <1>3, <1>5, <1>6, <1>8, <1>9 DEF SystemInv, AirFits, FifoFits, CommandMeetsUnlockedDevice

(* A step of the application in which a driver may run.                     *)
LEMMA ApplicationKeeps ==
  ASSUME SystemInv, AppInv', DriverStep, Elsewhere, fifo' = fifo
  PROVE  SystemInv'
<1>1. RecTyped' /\ DlTyped' /\ millis' \in Time /\ WritesHarmless
  BY DriverKeeps DEF SystemInv
<1>2. Transmit(tx') /\ UNCHANGED <<connected, drops, dev>>
  BY DEF Elsewhere
<1>3. AirFits' /\ toDev' \in Seq(UbxPacket)
  BY <1>1, <1>2, WriteKeeps DEF SystemInv
<1>4. LinkTypeOK' /\ FifoFits' /\ dev' \in DeviceType
  BY <1>2, <1>3 DEF SystemInv, LinkTypeOK, FifoFits
<1>. QED
  BY <1>1, <1>3, <1>4 DEF SystemInv, AppInv

(* Every step of the system keeps its invariant.                            *)
LEMMA SystemInvStep == SystemInv /\ [SystemNext]_vars => SystemInv'
<1>. SUFFICES ASSUME SystemInv, [SystemNext]_vars PROVE SystemInv'
  OBVIOUS
<1>1. /\ RecTyped /\ DlTyped /\ millis \in Time /\ LinkTypeOK /\ dev \in DeviceType
      /\ AirFits /\ FifoFits /\ AppInv
  BY DEF SystemInv, AppInv
<1>2. CASE Typed \/ React \/ BenchTick \/ Poll
  BY <1>1, <1>2, CommandKeeps, ReactKeeps, BenchKeeps, PollKeeps, ApplicationKeeps
<1>3. CASE Dispatch
  BY <1>3, DispatchKeeps
<1>4. UNCHANGED <<fifo, toDev, connected, drops, dev>> => LinkTypeOK' /\ AirFits' /\ FifoFits' /\ dev' \in DeviceType
  BY <1>1 DEF LinkTypeOK, AirFits, FifoFits, CommandMeetsUnlockedDevice
<1>5. UNCHANGED app /\ pc' \in {"serial", "drain", pc} /\ UNCHANGED heard => AppInv'
  BY <1>1 DEF app, mode, configTest, captures, recBench, AppInv, AppTyped, HeardFits, Event, Confirmed,
              BenchHasDuration
<1>6. CASE Setup
  <2>1. /\ Rec!SetSecurityCode(SECURITY_CODE) \/ Rec!SetEraseProgressCallback
        /\ UNCHANGED <<dlOnly, linkVars, heard, app, dev>> /\ pc' \in {"serial", pc}
    BY <1>6 DEF Setup
  <2>2. RecTyped' /\ millis' \in Time
    BY <1>1, <2>1, RecorderPolled
  <2>3. DlTyped'
    BY <1>1, <2>1 DEF DlTyped, dlOnly
  <2>. QED
    BY <1>4, <1>5, <2>1, <2>2, <2>3 DEF SystemInv, AppInv, linkVars
<1>7. CASE NoMoreTyped \/ Reconnect
  <2>1. Silent /\ UNCHANGED <<fifo, toDev, drops, heard, app, dev>> /\ pc' \in {"drain", pc}
    BY <1>7 DEF NoMoreTyped, Reconnect, LinkUp, linkVars
  <2>2. RecTyped' /\ DlTyped' /\ millis' \in Time
    BY <1>1, <2>1, DriverKeeps DEF DriverStep
  <2>3. connected' \in BOOLEAN
    BY <1>1, <1>7 DEF NoMoreTyped, Reconnect, LinkUp, linkVars, LinkTypeOK
  <2>4. LinkTypeOK' /\ AirFits' /\ FifoFits' /\ dev' \in DeviceType
    BY <1>1, <2>1, <2>3 DEF LinkTypeOK, AirFits, FifoFits, CommandMeetsUnlockedDevice
  <2>. QED
    BY <1>5, <2>1, <2>2, <2>4 DEF SystemInv, AppInv
<1>8. CASE ClockTick
  <2>1. /\ Rec!Tick /\ pc' = "drain" /\ UNCHANGED <<dlOnly, linkVars, heard, app, dev>>
    BY <1>8 DEF ClockTick
  <2>2. RecTyped' /\ millis' \in Time
    BY <1>1, <2>1, RecorderPolled
  <2>3. DlTyped'
    BY <1>1, <2>1 DEF DlTyped, dlOnly
  <2>. QED
    BY <1>4, <1>5, <2>1, <2>2, <2>3 DEF SystemInv, AppInv, linkVars
<1>9. CASE Drop \/ Device
  <2>1. Silent /\ UNCHANGED <<pc, heard, app>>
    BY <1>9 DEF Drop, Device
  <2>2. RecTyped' /\ DlTyped' /\ millis' \in Time
    BY <1>1, <2>1, DriverKeeps DEF DriverStep
  <2>3. CASE Drop
    BY <1>1, <1>5, <2>1, <2>2, <2>3, DropKeeps DEF SystemInv, AppInv
  <2>4. CASE Device
    <3>1. AirFits' /\ FifoFits' /\ fifo' \in Seq(UbxPacket) /\ toDev' \in Seq(UbxPacket) /\ dev' \in DeviceType
      BY <1>1, <2>4, DeviceMoves, AnswersKeep
    <3>2. LinkTypeOK'
      BY <1>1, <2>4, <3>1 DEF Device, LinkTypeOK
    <3>. QED
      BY <1>5, <2>1, <2>2, <3>1, <3>2 DEF SystemInv, AppInv
  <2>. QED
    BY <1>9, <2>3, <2>4
<1>10. CASE UNCHANGED vars
  <2>1. UNCHANGED <<recOnly, dlOnly, millis, linkVars, pc, heard, app, dev>>
    BY <1>10 DEF vars
  <2>2. RecTyped' /\ DlTyped'
    BY <1>1, <2>1 DEF RecTyped, DlTyped, recOnly, dlOnly
  <2>. QED
    BY <1>1, <1>4, <1>5, <2>1, <2>2 DEF SystemInv, AppInv, linkVars
<1>. QED
  BY <1>2, <1>3, <1>6, <1>7, <1>8, <1>9, <1>10 DEF SystemNext

(* The invariant holds of LibTest whatever is typed, in whatever order the  *)
(* device answers, and wherever the link is lost.                           *)
THEOREM SystemInvariant == SystemSpec => []SystemInv
BY SystemInvInit, SystemInvStep, PTL DEF SystemSpec

(* Every variable of the application, of both drivers and of the device     *)
(* stays in its type.                                                       *)
THEOREM SystemTypeCorrect == SystemSpec => []SystemTypeOK
<1>1. SystemInv => SystemTypeOK
  BY DEF SystemInv, RecTyped, DlTyped, AppTyped, DeviceType, SystemTypeOK
<1>. QED
  BY <1>1, SystemInvariant, PTL

(* No start, stop or erase reaches a locked device, with two drivers that   *)
(* take each other's answers.                                               *)
THEOREM CommandsMeetUnlockedDevice == SystemSpec => []CommandMeetsUnlockedDevice
<1>1. SystemInv => CommandMeetsUnlockedDevice
  BY DEF SystemInv, AirFits
<1>. QED
  BY <1>1, SystemInvariant, PTL

(* RECBENCH has a duration for every session it is in.                      *)
THEOREM BenchAlwaysHasDuration == SystemSpec => []BenchHasDuration
<1>1. SystemInv => BenchHasDuration
  BY DEF SystemInv
<1>. QED
  BY <1>1, SystemInvariant, PTL

------------------------------------------------------------------------------
(* Whose start CONFIG TEST confirms.                                        *)

TestPhase == {"CT_WAIT_START1", "CT_WAIT_STOP1", "CT_WAIT_START2", "CT_WAIT_STOP2"}

\* A start among these packets is at one of these rates.
StartsOnlyAt(s, id, rates) == \A i \in DOMAIN s : s[i].id = id /\ s[i].arg = 1 => s[i].aux \in rates

\* Every start on the air, in the device, and reported is at the test's rate; a report
\* that echoes no rate stands for the one configured.
OwnAir == StartsOnlyAt(toDev, UBX_ID_REC_CONFIG, {TestRate})
OwnReports == StartsOnlyAt(fifo, UBX_ID_STATE_CHANGE, {0, TestRate})
OwnDevice == dev.owes /\ dev.recording = 1 => dev.rate = TestRate
OwnHeard == pc = "react" => Confirmed \subseteq {TestRate}

\* While a test is undisturbed every start there is, anywhere, is its own.
OwnStarts ==
  undisturbed =>
    /\ phase \in TestPhase /\ bench = "IDLE" /\ config = TestRate
    /\ OwnAir /\ OwnReports /\ OwnDevice /\ OwnHeard

OwnInv == OwnStarts /\ ComparesOwnStarts

(* The recorder sends a start with the configuration it keeps.              *)
LEMMA OwnWritten ==
  ASSUME LinkTypeOK, OwnAir, Transmit(tx'),
         WritesHarmless \/ (WritesReleased /\ config = TestRate)
  PROVE  OwnAir'
<1>1. PICK cmd \in UbxPacket : Writes(cmd) /\ (cmd.id = UBX_ID_REC_CONFIG => cmd.aux = TestRate)
  BY DEF WritesHarmless, WritesReleased, Harmless
<1>2. Aired(cmd)
  BY <1>1, TransmitAirs DEF Writes
<1>. QED
  BY <1>1, <1>2 DEF Aired, OwnAir, StartsOnlyAt

(* A command read leaves the others as they are.                            *)
LEMMA OwnRead ==
  ASSUME LinkTypeOK, OwnAir, NEW id, Reads(id)
  PROVE  OwnAir'
<1>1. Read(id)
  BY DeviceReads DEF Reads
<1>. QED
  BY <1>1 DEF Read, OwnAir, StartsOnlyAt

(* A report of a start at the test's rate may be pushed.                    *)
LEMMA OwnPushed ==
  ASSUME LinkTypeOK, OwnReports, NEW pkt \in UbxPacket, Notify(pkt),
         pkt.id = UBX_ID_STATE_CHANGE /\ pkt.arg = 1 => pkt.aux \in {0, TestRate}
  PROVE  OwnReports'
<1>1. PICK k \in Nat : Push(pkt, k)
  BY LinkAssumptions DEF Notify
<1>2. Arrived(pkt, k)
  BY <1>1, PushArrives
<1>. QED
  BY <1>2 DEF Arrived, OwnReports, StartsOnlyAt

(* The device records at the rate it was told to, and reports that one.     *)
LEMMA OwnAnswered ==
  ASSUME LinkTypeOK, dev \in DeviceType, OwnAir, OwnDevice, OwnReports, Device
  PROVE  OwnAir' /\ OwnDevice' /\ OwnReports'
<1>1. ASSUME NEW id \in Nat, NEW len \in Nat, NEW arg \in Nat, id # UBX_ID_STATE_CHANGE, Notify(Packet(id, len, arg))
      PROVE  OwnReports'
  <2>1. Packet(id, len, arg) \in UbxPacket /\ Packet(id, len, arg).id = id
    BY DriverPackets
  <2>. QED
    BY <1>1, <2>1, OwnPushed
<1>2. /\ toDev' = toDev => OwnAir'
      /\ fifo' = fifo => OwnReports'
      /\ dev'.owes = dev.owes /\ dev'.recording = dev.recording /\ dev'.rate = dev.rate => OwnDevice'
  BY DEF OwnAir, OwnReports, OwnDevice
<1>3. CASE DevUnlock \/ DevRefuses \/ DevStatus \/ DevErase \/ DevErased \/ DevDownload \/ DevComplete
  <2>1. OwnAir'
    BY <1>2, <1>3, OwnRead DEF DevUnlock, DevRefuses, DevStatus, DevErase, DevErased, DevDownload, DevComplete, Reads
  <2>2. OwnReports'
    <3>1. CASE DevUnlock \/ DevRefuses \/ DevErased \/ DevComplete
      BY <1>1, <3>1 DEF DevUnlock, DevRefuses, DevErased, DevComplete, Answer
    <3>2. CASE DevStatus
      BY <1>1, <3>2 DEF DevStatus, DeviceType
    <3>3. CASE DevDownload
      BY <1>1, <3>3 DEF DevDownload
    <3>4. CASE DevErase
      BY <1>2, <3>4 DEF DevErase
    <3>. QED
      BY <1>3, <3>1, <3>2, <3>3, <3>4
  <2>3. dev'.owes = dev.owes /\ dev'.recording = dev.recording /\ dev'.rate = dev.rate
    BY <1>3 DEF DevUnlock, DevRefuses, DevStatus, DevErase, DevErased, DevDownload, DevComplete, DeviceType
  <2>. QED
    BY <1>2, <2>1, <2>2, <2>3
<1>4. CASE DevConfigure
  <2>1. Read(UBX_ID_REC_CONFIG) /\ OwnAir' /\ OwnReports'
    <3>1. Reads(UBX_ID_REC_CONFIG) /\ Notify(Packet(UBX_ID_ACK, 2, UBX_ID_REC_CONFIG))
      BY <1>4 DEF DevConfigure, Answer
    <3>2. OwnReports'
      BY <1>1, <3>1
    <3>. QED
      BY <3>1, <3>2, OwnRead, DeviceReads DEF Reads
  <2>2. Head(toDev).arg = 1 => Head(toDev).aux = TestRate
    BY <2>1 DEF Read, OwnAir, StartsOnlyAt
  <2>3. dev'.recording = Head(toDev).arg /\ dev'.rate = Head(toDev).aux
    BY <1>4 DEF DevConfigure, DeviceType
  <2>. QED
    BY <2>1, <2>2, <2>3 DEF OwnDevice
<1>5. CASE DevReport
  <2>. DEFINE pkt == [Packet(UBX_ID_STATE_CHANGE, 12, dev.recording) EXCEPT
                        !.aux = IF EchoesRate THEN dev.rate ELSE 0]
  <2>1. dev'.owes = FALSE /\ Notify(pkt) /\ toDev' = toDev /\ dev.owes
    BY <1>5 DEF DevReport, DeviceType
  <2>2. dev.recording \in Nat /\ (IF EchoesRate THEN dev.rate ELSE 0) \in Nat
    BY DEF DeviceType
  <2>3. pkt \in UbxPacket
    BY <2>2, DevicePackets
  <2>4. pkt.arg = dev.recording /\ pkt.aux \in {0, dev.rate}
    BY DEF Packet
  <2>. HIDE DEF pkt
  <2>5. pkt.arg = 1 => pkt.aux \in {0, TestRate}
    BY <2>1, <2>4 DEF OwnDevice
  <2>. QED
    BY <1>2, <2>1, <2>3, <2>5, OwnPushed DEF OwnDevice
<1>. QED
  BY <1>3, <1>4, <1>5 DEF Device

(* A report dispatched confirms the test's rate.                            *)
LEMMA OwnDispatched ==
  ASSUME SystemInv, OwnStarts, undisturbed, Dispatch
  PROVE  OwnStarts'
<1>1. /\ fifo # <<>> /\ ExtractFrame /\ Transmit(tx') /\ pc = "drain"
      /\ UNCHANGED <<dev, mode, configTest, recBench>>
      /\ \/ pc' = "react" /\ heard' = calls' /\ ChangesState /\ packetCb = "recorder"
         \/ UNCHANGED <<pc, heard>>
  BY DEF Dispatch, Elsewhere, app
<1>2. LinkTypeOK /\ fifo \in Seq(UbxPacket)
  BY DEF SystemInv, LinkTypeOK
<1>3. OwnAir /\ OwnReports /\ OwnDevice /\ config = TestRate
  BY DEF OwnStarts
<1>4. Taken
  BY <1>1, <1>2, ExtractTakes
<1>5. PICK pkt \in UbxPacket : pkt = Head(fifo) /\ pkt = fifo[1]
  BY <1>4 DEF Taken
<1>6. pkt.id = UBX_ID_STATE_CHANGE /\ pkt.arg = 1 => pkt.aux \in {0, TestRate}
  BY <1>3, <1>4, <1>5 DEF Taken, OwnReports, StartsOnlyAt
<1>7. OwnReports' /\ OwnDevice'
  BY <1>1, <1>3, <1>4 DEF Taken, OwnReports, OwnDevice, StartsOnlyAt
<1>8. config' = config /\ (WritesHarmless \/ WritesReleased) /\ (packetCb = "recorder" => CallsFit(pkt))
  <2>1. PICK ok : \/ packetCb = "recorder" /\ Rec!OnPacket(pkt, ok) /\ UNCHANGED dlOnly
                  \/ packetCb = "downloader" /\ Dl!OnPacket(pkt, ok) /\ UNCHANGED recOnly
    BY <1>5 DEF Dispatch
  <2>2. CASE packetCb = "recorder" /\ Rec!OnPacket(pkt, ok)
    BY <2>2, RecorderHears DEF SystemInv
  <2>3. CASE packetCb = "downloader" /\ Dl!OnPacket(pkt, ok) /\ UNCHANGED recOnly
    BY <2>3, DownloaderMoves DEF SystemInv, MovesDownloader, recOnly
  <2>. QED
    BY <2>1, <2>2, <2>3
<1>9. OwnAir'
  BY <1>1, <1>2, <1>3, <1>8, OwnWritten
<1>10. OwnHeard'
  <2>1. CASE UNCHANGED <<pc, heard>>
    BY <1>1, <2>1 DEF OwnHeard
  <2>2. CASE pc' = "react" /\ heard' = calls' /\ ChangesState /\ packetCb = "recorder"
    <3>1. \A i \in DOMAIN heard' : heard'[i].fn = "configConfirmed" => heard'[i].data = TestRate
      BY <1>3, <1>6, <1>8, <2>2 DEF CallsFit, ConfirmsRate
    <3>. QED
      BY <3>1 DEF OwnHeard, Confirmed
  <2>. QED
    BY <1>1, <2>1, <2>2
<1>. QED
  BY <1>1, <1>3, <1>7, <1>8, <1>9, <1>10 DEF OwnStarts, configTest, recBench

(* A step of the application that asks for no start but the test's own      *)
(* brings in no other.                                                      *)
LEMMA OwnAsked ==
  ASSUME SystemInv, DriverStep, Elsewhere, fifo' = fifo, pc' # "react",
         OwnAir, OwnReports, OwnDevice, config' = TestRate, bench' = "IDLE", phase' \in TestPhase
  PROVE  OwnStarts'
<1>1. Transmit(tx') /\ dev' = dev /\ LinkTypeOK
  BY DEF Elsewhere, SystemInv
<1>2. WritesHarmless
  BY DriverKeeps DEF SystemInv
<1>3. OwnAir'
  BY <1>1, <1>2, OwnWritten
<1>4. OwnReports' /\ OwnDevice' /\ OwnHeard'
  BY <1>1 DEF OwnReports, OwnDevice, OwnHeard
<1>. QED
  BY <1>3, <1>4 DEF OwnStarts

(* CONFIG TEST finds no start under way, and asks for its own.              *)
LEMMA OwnBegins ==
  ASSUME SystemInv, Typed, ConfigTest
  PROVE  OwnStarts'
<1>. SUFFICES ASSUME undisturbed' PROVE OwnStarts'
  BY DEF OwnStarts
<1>1. /\ Elsewhere /\ fifo' = fifo /\ pc' = "serial"
      /\ phase' = "CT_WAIT_START1" /\ bench' = "IDLE" /\ StartsAt(TestRate) /\ ~StartUnderWay
  BY DEF Typed, ConfigTest, recBench
<1>2. OwnAir /\ OwnReports /\ OwnDevice
  BY <1>1 DEF StartUnderWay, OwnAir, OwnReports, OwnDevice, StartsOnlyAt
<1>3. config' = TestRate
  BY <1>1 DEF StartsAt, Rec!StartRecordingWith
<1>4. DriverStep
  BY <1>1, RecorderCalls
<1>. QED
  BY <1>1, <1>2, <1>3, <1>4, OwnAsked DEF TestPhase

(* The other commands leave an undisturbed test as it is, or disturb it.    *)
LEMMA OwnCommanded ==
  ASSUME SystemInv, OwnStarts, Typed
  PROVE  OwnStarts'
<1>1. CASE ConfigTest
  BY <1>1, OwnBegins
<1>2. CASE ~ConfigTest
  <2>. SUFFICES ASSUME undisturbed' PROVE OwnStarts'
    BY DEF OwnStarts
  <2>1. Command /\ Elsewhere /\ fifo' = fifo /\ pc' = "serial"
    BY DEF Typed
  <2>2. undisturbed
    BY <1>2, <2>1 DEF Command, Status, RecStart, RecStop, Erase, EraseCancel, RecBench, RecBenchStop, Watch,
                      ConfigVerify, Download, configTest
  <2>3. /\ phase \in TestPhase /\ bench = "IDLE" /\ config = TestRate
        /\ OwnAir /\ OwnReports /\ OwnDevice /\ phase # "IDLE"
    BY <2>2 DEF OwnStarts, TestPhase
  <2>4. Status \/ RecStop \/ Erase \/ EraseCancel \/ Watch \/ Download
    <3>1. ~ConfigVerify /\ ~RecBenchStop
      BY <2>3 DEF ConfigVerify, RecBenchStop
    <3>2. ~RecStart /\ ~RecBench
      BY DEF RecStart, RecBench
    <3>. QED
      BY <1>2, <2>1, <3>1, <3>2 DEF Command
  <2>5. phase' = phase /\ bench' = bench
    BY <2>4 DEF Status, RecStop, Erase, EraseCancel, Watch, Download, configTest, recBench
  <2>6. config' = config
    <3>1. CASE Status \/ RecStop
      BY <3>1 DEF Status, RecStop, QueriesStatus, Stops, Rec!QueryStatus, Rec!StopRecording, Rec!settings
    <3>2. CASE Erase \/ EraseCancel
      BY <3>2 DEF Erase, EraseCancel, Rec!EraseMemory, Rec!CancelErase, Rec!settings
    <3>3. CASE Watch \/ Download
      BY <3>3 DEF Watch, Download, Silent, Rec!Silent, Rec!settings, recOnly
    <3>. QED
      BY <2>4, <3>1, <3>2, <3>3
  <2>7. AppInv
    BY DEF SystemInv, AppInv
  <2>8. DriverStep
    BY <2>7, CommandKeeps
  <2>. QED
    BY <2>1, <2>3, <2>5, <2>6, <2>8, OwnAsked
<1>. QED
  BY <1>1, <1>2

(* The rest of the loop asks for a start only as the test's next.           *)
LEMMA OwnLooped ==
  ASSUME SystemInv, OwnStarts, React \/ BenchTick \/ Poll
  PROVE  OwnStarts'
<1>. SUFFICES ASSUME undisturbed' PROVE OwnStarts'
  BY DEF OwnStarts
<1>1. AppInv /\ millis \in Time
  BY DEF SystemInv, AppInv
<1>2. DriverStep /\ Elsewhere /\ fifo' = fifo /\ pc' # "react"
  BY <1>1, ReactKeeps, BenchKeeps, PollKeeps DEF React, BenchTick, Poll
<1>3. undisturbed /\ (React => phase' # "IDLE")
  BY DEF React, Capture, BenchTick, Poll, configTest
<1>4. /\ phase \in TestPhase /\ bench = "IDLE" /\ config = TestRate
      /\ OwnAir /\ OwnReports /\ OwnDevice
  BY <1>3 DEF OwnStarts
<1>5. CASE React
  <2>1. phase' \in TestPhase /\ bench' = "IDLE"
    BY <1>3, <1>4, <1>5 DEF React, AdvancePhase, BenchStarted, BenchStopped, Unconcerned, recBench,
                            Transition, TestPhase
  <2>2. Stops \/ Starts \/ Silent
    BY <1>4, <1>5 DEF React, AdvancePhase, BenchStarted, BenchStopped, Unconcerned
  <2>3. config' = config
    BY <2>2 DEF Stops, Starts, Silent, Rec!StopRecording, Rec!StartRecording, Rec!Silent, Rec!settings
  <2>. QED
    BY <1>2, <1>4, <2>1, <2>3, OwnAsked
<1>6. CASE BenchTick
  BY <1>4, <1>6 DEF BenchTick, StatusDue, DurationReached, PauseOver
<1>7. CASE Poll
  <2>1. phase' = phase /\ bench' = bench
    BY <1>7 DEF Poll, configTest, recBench
  <2>2. config' = config
    BY <1>7 DEF Poll, Rec!Update, Rec!settings, recOnly
  <2>. QED
    BY <1>2, <1>4, <2>1, <2>2, OwnAsked
<1>. QED
  BY <1>5, <1>6, <1>7

(* The device, the link and the clock bring in no start.                    *)
LEMMA OwnAround ==
  ASSUME SystemInv, OwnStarts, Setup \/ NoMoreTyped \/ Reconnect \/ ClockTick \/ Drop \/ Device \/ UNCHANGED vars
  PROVE  OwnStarts'
<1>. SUFFICES ASSUME undisturbed' PROVE OwnStarts'
  BY DEF OwnStarts
<1>1. UNCHANGED <<phase, undisturbed, bench, heard, config>> /\ (pc' = pc \/ pc' # "react")
  <2>1. UNCHANGED <<app, heard>> => UNCHANGED <<phase, undisturbed, bench, heard>>
    BY DEF app, configTest, recBench
  <2>2. CASE Setup
    BY <2>1, <2>2 DEF Setup, Rec!SetSecurityCode, Rec!SetEraseProgressCallback, Rec!settings
  <2>3. CASE NoMoreTyped \/ Reconnect \/ Drop \/ Device
    BY <2>1, <2>3 DEF NoMoreTyped, Reconnect, Drop, Device, Silent, Rec!Silent, Rec!settings
  <2>4. CASE ClockTick
    BY <2>1, <2>4 DEF ClockTick, Rec!Tick, Rec!settings
  <2>5. CASE UNCHANGED vars
    BY <2>1, <2>5 DEF vars, recOnly
  <2>. QED
    BY <2>2, <2>3, <2>4, <2>5
<1>2. /\ phase \in TestPhase /\ bench = "IDLE" /\ config = TestRate
      /\ OwnAir /\ OwnReports /\ OwnDevice /\ OwnHeard
  BY <1>1 DEF OwnStarts
<1>3. OwnHeard'
  BY <1>1, <1>2 DEF OwnHeard, Confirmed
<1>4. OwnAir' /\ OwnReports' /\ OwnDevice'
  <2>1. CASE UNCHANGED <<fifo, toDev, dev>>
    BY <1>2, <2>1 DEF OwnAir, OwnReports, OwnDevice
  <2>2. CASE Device
    BY <1>2, <2>2, OwnAnswered DEF SystemInv
  <2>3. CASE Drop
    <3>1. fifo' = <<>> /\ toDev' = <<>> /\ dev'.owes = FALSE
      BY <2>3 DEF Drop, LinkDown, ClearFifo, SystemInv, DeviceType
    <3>2. DOMAIN fifo' = {} /\ DOMAIN toDev' = {}
      BY <3>1
    <3>. QED
      BY <3>1, <3>2 DEF OwnAir, OwnReports, OwnDevice, StartsOnlyAt
  <2>. QED
    BY <2>1, <2>2, <2>3 DEF Setup, NoMoreTyped, Reconnect, LinkUp, ClockTick, linkVars, vars
<1>. QED
  BY <1>1, <1>2, <1>3, <1>4 DEF OwnStarts

(* A start's phase is left with the rate that was confirmed in it.          *)
LEMMA CapturesKeep ==
  ASSUME SystemInv, OwnInv, [SystemNext]_vars
  PROVE  ComparesOwnStarts'
<1>1. CASE React
  <2>1. phase \in Phase /\ Capture /\ (Event = RECORDING_START => Confirmed # {})
    BY <1>1 DEF SystemInv, AppTyped, React, HeardFits
  <2>2. undisturbed' => undisturbed /\ Confirmed \subseteq {TestRate}
    BY <1>1, <2>1 DEF Capture, OwnInv, OwnStarts, OwnHeard, React
  <2>3. CASE AdvancePhase
    <3>1. Awaited /\ phase' = Transition[phase][2]
      BY <2>3 DEF AdvancePhase
    <3>2. /\ phase' \in {"CT_WAIT_STOP1", "CT_WAIT_START2", "CT_WAIT_STOP2"}
               => phase \in {"CT_WAIT_START1", "CT_WAIT_STOP1", "CT_WAIT_START2"}
          /\ phase' = "CT_WAIT_STOP2" => phase = "CT_WAIT_START2"
          /\ phase \in {"CT_WAIT_START1", "CT_WAIT_START2"} => Event = RECORDING_START
      BY <2>1, <3>1 DEF Awaited, Transition, Phase
    <3>3. /\ phase = "CT_WAIT_START1" => captured1' # {} /\ (undisturbed' => captured1' = {TestRate})
          /\ phase # "CT_WAIT_START1" => captured1' = captured1
          /\ phase = "CT_WAIT_START2" => captured2' # {} /\ (undisturbed' => captured2' = {TestRate})
      BY <2>1, <2>2, <3>2 DEF Capture
    <3>. QED
      BY <2>2, <3>2, <3>3 DEF OwnInv, ComparesOwnStarts
  <2>4. CASE BenchStarted \/ BenchStopped \/ Unconcerned
    <3>1. /\ phase' = phase
          /\ phase # "CT_WAIT_START1" => captured1' = captured1
          /\ phase # "CT_WAIT_START2" => captured2' = captured2
      BY <2>1, <2>4 DEF BenchStarted, BenchStopped, Unconcerned, Capture
    <3>. QED
      BY <2>2, <3>1 DEF OwnInv, ComparesOwnStarts
  <2>. QED
    BY <1>1, <2>3, <2>4 DEF React
<1>2. CASE ~React
  <2>1. \/ /\ UNCHANGED <<phase, captured1, captured2>>
           /\ undisturbed' => undisturbed
        \/ phase' = "CT_WAIT_START1" \/ phase' = "CV_WAIT_START"
    BY <1>2 DEF SystemNext, Setup, Typed, Command, NoMoreTyped, Reconnect, Dispatch, BenchTick, Poll, ClockTick,
       Drop, Device, Status, RecStart, RecStop, Erase, EraseCancel, RecBench, RecBenchStop, Watch, ConfigTest,
       ConfigVerify, Download, vars, app, configTest, captures
  <2>. QED
    BY <2>1 DEF OwnInv, ComparesOwnStarts
<1>. QED
  BY <1>1, <1>2

(* An undisturbed test stays surrounded by its own starts.                  *)
LEMMA OwnInvStep == SystemInv /\ OwnInv /\ [SystemNext]_vars => OwnInv'
<1>. SUFFICES ASSUME SystemInv, OwnInv, [SystemNext]_vars PROVE OwnInv'
  OBVIOUS
<1>1. OwnStarts'
  <2>1. CASE Dispatch
    <3>1. undisturbed' = undisturbed
      BY <2>1 DEF Dispatch, app, configTest
    <3>. QED
      BY <2>1, <3>1, OwnDispatched DEF OwnInv, OwnStarts
  <2>2. CASE Typed \/ React \/ BenchTick \/ Poll
    BY <2>2, OwnCommanded, OwnLooped DEF OwnInv
  <2>. QED
    BY <2>1, <2>2, OwnAround DEF OwnInv, SystemNext
<1>. QED
  BY <1>1, CapturesKeep DEF OwnInv

(* Whatever is typed, and wherever the link is lost: while no other start   *)
(* than CONFIG TEST's is asked for, none is on the air, in the device, in   *)
(* the FIFO or in a callback.                                               *)
THEOREM OwnInvariant == SystemSpec => []OwnInv
<1>1. SystemInit => OwnInv
  BY DEF SystemInit, OwnInv, OwnStarts, ComparesOwnStarts
<1>. QED
  BY <1>1, SystemInvariant, OwnInvStep, PTL DEF SystemSpec

(* The verdict of CONFIG TEST compares two configurations confirmed since   *)
(* the test began, and those of the two starts it asked for unless another  *)
(* start was under way when it began or was asked for since.                *)
THEOREM TestComparesOwnStarts == SystemSpec => []ComparesOwnStarts
<1>1. OwnInv => ComparesOwnStarts
  BY DEF OwnInv
<1>. QED
  BY <1>1, OwnInvariant, PTL

================================================================================
