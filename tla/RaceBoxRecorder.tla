---------------------------- MODULE RaceBoxRecorder ----------------------------
(***************************************************************************)
(* RaceBoxRecorder: the driver that starts and stops standalone recording, *)
(* erases the memory and queries the status of a RaceBox.                  *)
(*                                                                         *)
(* A start, a stop or an erase is a request: it is remembered in           *)
(* pendingCmd while an unlock command makes its round trip, and the unlock *)
(* ACK sends it.  One timer, cmdSentMs, watches whatever was sent last.    *)
(*                                                                         *)
(* As in RaceBoxDownloader every action is one entry point, ok is what     *)
(* sendCommand() returned to it, tx and calls hold the command written and *)
(* the callbacks run by the last step.  A RecordingConfig is represented   *)
(* by its data rate; the filters travel with it in the same command.       *)
(***************************************************************************)
EXTENDS Ubx, Millis, Sequences

CONSTANTS
  ACK_TIMEOUT_MS,   \* the command timer's limit (5 s in the code)
  Rates,            \* data rates the application asks for
  Codes,            \* security codes the application may set
  DefaultRate,      \* HZ_25
  DefaultCode,      \* 123456
  Deliverable,      \* packets the environment may deliver
  HasStateChangeCallback, HasConfigConfirmedCallback   \* which callbacks are registered

ASSUME RecorderAssumptions ==
  /\ ACK_TIMEOUT_MS \in Nat
  /\ Rates \subseteq Nat /\ DefaultRate \in Nat
  /\ Codes \subseteq Nat /\ DefaultCode \in Nat
  /\ Deliverable \subseteq UbxPacket
  /\ {HasStateChangeCallback, HasConfigConfirmedCallback} \subseteq BOOLEAN

VARIABLES
  recState,         \* _state, a byte the device sent; UNKNOWN at first
  status,           \* _memoryLevel, _recordCount, _memorySize
  dataRate,         \* _dataRate
  lastAck,          \* _lastAck
  cmdSentMs,        \* _cmdSentMs; 0 also means "no command under way"
  config,           \* _config
  confirmedConfig,  \* _confirmedConfig
  isErasing,        \* _isErasing
  eraseProgress,    \* _eraseProgress
  eraseCb,          \* whether _eraseProgressCb is set
  securityCode,     \* _securityCode
  pendingCmd,       \* _pendingCmd
  millis,           \* what millis() returns
  tx,               \* commands written by the last step
  calls             \* application callbacks run by the last step

reports == <<recState, status, dataRate, confirmedConfig>>
erase == <<isErasing, eraseProgress, eraseCb>>
settings == <<config, securityCode>>
recVars == <<recState, status, dataRate, lastAck, cmdSentMs, config, confirmedConfig,
             isErasing, eraseProgress, eraseCb, securityCode, pendingCmd, millis, tx, calls>>

Pending == {"NONE", "START", "STOP", "ERASE"}
UNKNOWN == 255

Call == [fn : {"eraseProgress", "configConfirmed", "stateChange"}, data : Nat]

TypeOK ==
  /\ recState \in Nat /\ status \in Nat /\ dataRate \in Nat
  /\ lastAck \in BOOLEAN
  /\ cmdSentMs \in Time
  /\ config \in Nat /\ confirmedConfig \in Nat
  /\ isErasing \in BOOLEAN /\ eraseProgress \in Nat /\ eraseCb \in BOOLEAN
  /\ securityCode \in Nat
  /\ pendingCmd \in Pending
  /\ millis \in Time
  /\ tx \in Seq(UbxPacket)
  /\ calls \in Seq(Call)

Init ==
  /\ recState = UNKNOWN /\ status = 0 /\ dataRate = DefaultRate
  /\ lastAck = FALSE
  /\ cmdSentMs = 0
  /\ config = DefaultRate /\ confirmedConfig = DefaultRate
  /\ isErasing = FALSE /\ eraseProgress = 0 /\ eraseCb = FALSE
  /\ securityCode = DefaultCode
  /\ pendingCmd = "NONE"
  /\ millis \in Time
  /\ tx = <<>> /\ calls = <<>>

IsPending == pendingCmd # "NONE" \/ cmdSentMs # 0

------------------------------------------------------------------------------
(* Sending.  A command that went out arms the timer; one that could not be  *)
(* written leaves it as it was (since).                                     *)
Send(cmd, since, ok) ==
  /\ tx' = IF ok THEN <<cmd>> ELSE <<>>
  /\ cmdSentMs' = IF ok THEN millis ELSE since

RecConfig(enable) == [Packet(UBX_ID_REC_CONFIG, 12, enable) EXCEPT !.aux = config]

\* Mutant: the progress of the erase before is kept.
EraseBeginsStale == isErasing' = TRUE /\ UNCHANGED <<eraseProgress, eraseCb>>
EraseBegins == isErasing' = TRUE /\ eraseProgress' = 0 /\ UNCHANGED eraseCb

\* What an unlock ACK sends for the pending request.
SendPending(since, ok) ==
  CASE pendingCmd = "START" -> Send(RecConfig(1), since, ok) /\ UNCHANGED erase
    [] pendingCmd = "STOP"  -> Send(RecConfig(0), since, ok) /\ UNCHANGED erase
    [] pendingCmd = "ERASE" ->
         /\ Send(Packet(UBX_ID_ERASE, 0, 0), since, ok)
         /\ IF ok THEN EraseBegins ELSE UNCHANGED erase
    [] OTHER -> tx' = <<>> /\ cmdSentMs' = since /\ UNCHANGED erase

------------------------------------------------------------------------------
(* The application's calls.                                                 *)

\* Mutant: a request does not displace the one before it.
RememberFirst(cmd) == pendingCmd' = IF pendingCmd = "NONE" THEN cmd ELSE pendingCmd
Remember(cmd) == pendingCmd' = cmd

\* The part every request shares: remember it, send the unlock.
Request(cmd, ok) ==
  /\ Remember(cmd)
  /\ Send(Packet(UBX_ID_MEM_UNLOCK, 4, securityCode), cmdSentMs, ok)
  /\ calls' = <<>>
  /\ UNCHANGED <<reports, lastAck, erase, securityCode, millis>>

StartRecording(ok) == Request("START", ok) /\ UNCHANGED config

StartRecordingWith(rate, ok) == Request("START", ok) /\ config' = rate

StopRecording(ok) == Request("STOP", ok) /\ UNCHANGED config

\* Mutant: nothing refuses a second erase.
MayAlwaysErase == TRUE
MayErase == ~isErasing

EraseMemory(ok) ==
  /\ UNCHANGED config
  /\ IF MayErase
       THEN Request("ERASE", ok)
       ELSE /\ tx' = <<>> /\ calls' = <<>>
            /\ UNCHANGED <<reports, lastAck, cmdSentMs, erase, securityCode, pendingCmd, millis>>

\* cancelErase() neither watches its command nor looks at what sending it returned.
CancelErase(ok) ==
  /\ isErasing
  /\ tx' = IF ok THEN <<Packet(UBX_ID_ERASE, 1, 0)>> ELSE <<>>
  /\ isErasing' = FALSE
  /\ eraseCb' = FALSE
  /\ calls' = <<>>
  /\ UNCHANGED <<reports, lastAck, cmdSentMs, settings, eraseProgress, pendingCmd, millis>>

QueryStatus(ok) ==
  /\ Send(Packet(UBX_ID_REC_STATUS, 0, 0), cmdSentMs, ok)
  /\ calls' = <<>>
  /\ UNCHANGED <<reports, lastAck, settings, erase, pendingCmd, millis>>

SetConfig(rate) ==
  /\ config' = rate
  /\ tx' = <<>> /\ calls' = <<>>
  /\ UNCHANGED <<reports, lastAck, cmdSentMs, erase, securityCode, pendingCmd, millis>>

SetSecurityCode(code) ==
  /\ securityCode' = code
  /\ tx' = <<>> /\ calls' = <<>>
  /\ UNCHANGED <<reports, lastAck, cmdSentMs, config, erase, pendingCmd, millis>>

SetEraseProgressCallback ==
  /\ eraseCb' = TRUE
  /\ tx' = <<>> /\ calls' = <<>>
  /\ UNCHANGED <<reports, lastAck, cmdSentMs, settings, isErasing, eraseProgress, pendingCmd, millis>>

\* update(): an armed timer that ran out counts as a refusal.
\* Mutant: the timer is watched only for a request (what update()'s comment says).
TimedOutPending ==
  pendingCmd # "NONE" /\ cmdSentMs # 0 /\ Elapsed(millis, cmdSentMs) > ACK_TIMEOUT_MS
TimedOut == cmdSentMs # 0 /\ Elapsed(millis, cmdSentMs) > ACK_TIMEOUT_MS

Update ==
  /\ IF TimedOut THEN lastAck' = FALSE /\ cmdSentMs' = 0 /\ pendingCmd' = "NONE"
                 ELSE UNCHANGED <<lastAck, cmdSentMs, pendingCmd>>
  /\ tx' = <<>> /\ calls' = <<>>
  /\ UNCHANGED <<reports, settings, erase, millis>>

------------------------------------------------------------------------------
(* _onPacket(), one action per message it handles.                          *)

Is(pkt, id) == pkt.cls = UBX_CLASS_RACEBOX /\ pkt.id = id

ReportProgress(percent) ==
  calls' = IF eraseCb THEN <<[fn |-> "eraseProgress", data |-> percent]>> ELSE <<>>

StatusReported(pkt) ==
  /\ Is(pkt, UBX_ID_REC_STATUS) /\ pkt.len >= 8
  /\ recState' = pkt.arg
  /\ status' = pkt.aux
  /\ cmdSentMs' = 0
  /\ tx' = <<>> /\ calls' = <<>>
  /\ UNCHANGED <<dataRate, confirmedConfig, lastAck, erase, pendingCmd>>

\* Mutant: the request is not forgotten once its command is sent.
KeepPending == UNCHANGED pendingCmd
TakePending == pendingCmd' = "NONE"

UnlockAcked(pkt, ok) ==
  /\ Is(pkt, UBX_ID_ACK) /\ Answers(pkt, UBX_ID_MEM_UNLOCK)
  /\ lastAck' = TRUE
  /\ TakePending
  /\ SendPending(0, ok)
  /\ calls' = <<>>
  /\ UNCHANGED reports

EraseAcked(pkt) ==
  /\ Is(pkt, UBX_ID_ACK) /\ Answers(pkt, UBX_ID_ERASE)
  /\ lastAck' = TRUE
  /\ cmdSentMs' = 0
  /\ isErasing' = FALSE
  /\ eraseProgress' = 100
  /\ ReportProgress(100)
  /\ tx' = <<>>
  /\ UNCHANGED <<reports, eraseCb, pendingCmd>>

OtherAcked(pkt) ==
  /\ Is(pkt, UBX_ID_ACK)
  /\ ~Answers(pkt, UBX_ID_MEM_UNLOCK) /\ ~Answers(pkt, UBX_ID_ERASE)
  /\ lastAck' = TRUE
  /\ cmdSentMs' = 0
  /\ tx' = <<>> /\ calls' = <<>>
  /\ UNCHANGED <<reports, erase, pendingCmd>>

Nacked(pkt) ==
  /\ Is(pkt, UBX_ID_NACK)
  /\ lastAck' = FALSE
  /\ cmdSentMs' = 0
  /\ pendingCmd' = "NONE"
  /\ tx' = <<>> /\ calls' = <<>>
  /\ UNCHANGED <<reports, erase>>

EraseProgressed(pkt) ==
  /\ Is(pkt, UBX_ID_ERASE) /\ pkt.len = 1
  /\ eraseProgress' = pkt.arg
  /\ ReportProgress(pkt.arg)
  /\ tx' = <<>>
  /\ UNCHANGED <<reports, lastAck, cmdSentMs, isErasing, eraseCb, pendingCmd>>

\* 1 is RECORDING_START, 2 RECORDING_PAUSE, anything else RECORDING_STOP.
Event(byte) == CASE byte = 1 -> 1 [] byte = 2 -> 3 [] OTHER -> 2

Confirms(pkt) == pkt.arg = 1 /\ pkt.len >= 12

StateChanged(pkt) ==
  /\ Is(pkt, UBX_ID_STATE_CHANGE) /\ pkt.len >= 1
  /\ recState' = pkt.arg
  /\ dataRate' = IF pkt.len >= 3 THEN pkt.aux ELSE dataRate
  /\ confirmedConfig' = IF ~Confirms(pkt) THEN confirmedConfig
                        ELSE IF pkt.aux # 0 THEN pkt.aux ELSE config
  /\ calls' = (IF Confirms(pkt) /\ HasConfigConfirmedCallback
                 THEN <<[fn |-> "configConfirmed", data |-> confirmedConfig']>> ELSE <<>>)
              \o (IF HasStateChangeCallback
                    THEN <<[fn |-> "stateChange", data |-> Event(pkt.arg)]>> ELSE <<>>)
  /\ tx' = <<>>
  /\ UNCHANGED <<status, lastAck, cmdSentMs, erase, pendingCmd>>

Handled(pkt) ==
  /\ pkt.cls = UBX_CLASS_RACEBOX
  /\ \/ pkt.id \in {UBX_ID_ACK, UBX_ID_NACK}
     \/ pkt.id = UBX_ID_REC_STATUS /\ pkt.len >= 8
     \/ pkt.id = UBX_ID_ERASE /\ pkt.len = 1
     \/ pkt.id = UBX_ID_STATE_CHANGE /\ pkt.len >= 1

Ignored(pkt) ==
  /\ ~Handled(pkt)
  /\ tx' = <<>> /\ calls' = <<>>
  /\ UNCHANGED <<reports, lastAck, cmdSentMs, erase, pendingCmd>>

OnPacket(pkt, ok) ==
  /\ UNCHANGED <<settings, millis>>
  /\ \/ StatusReported(pkt)
     \/ UnlockAcked(pkt, ok) \/ EraseAcked(pkt) \/ OtherAcked(pkt)
     \/ Nacked(pkt)
     \/ EraseProgressed(pkt)
     \/ StateChanged(pkt)
     \/ Ignored(pkt)

Tick ==
  /\ millis' = Later(millis)
  /\ tx' = <<>> /\ calls' = <<>>
  /\ UNCHANGED <<reports, lastAck, cmdSentMs, settings, erase, pendingCmd>>

\* A step of the world around the driver.
Silent ==
  /\ tx' = <<>> /\ calls' = <<>>
  /\ UNCHANGED <<reports, lastAck, cmdSentMs, settings, erase, pendingCmd, millis>>

Next ==
  \/ \E ok \in BOOLEAN :
       \/ StartRecording(ok) \/ StopRecording(ok) \/ EraseMemory(ok)
       \/ CancelErase(ok) \/ QueryStatus(ok)
       \/ \E rate \in Rates : StartRecordingWith(rate, ok)
       \/ \E pkt \in Deliverable : OnPacket(pkt, ok)
  \/ \E rate \in Rates : SetConfig(rate)
  \/ \E code \in Codes : SetSecurityCode(code)
  \/ SetEraseProgressCallback
  \/ Update
  \/ Tick
  \/ Silent

Spec == Init /\ [][Next]_recVars
==============================================================================
