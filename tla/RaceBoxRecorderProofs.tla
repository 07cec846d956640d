------------------------ MODULE RaceBoxRecorderProofs -------------------------
(***************************************************************************)
(* Proofs about the recorder. First under any environment: whatever        *)
(* answers it is handed, in whatever order, and whenever the application   *)
(* calls it.                                                               *)
(*                                                                         *)
(* Then about RecorderSession, for any FIFO, clock, rates, codes and       *)
(* number of calls, button presses and link losses, and for a device that  *)
(* reports its data rate or does not. The history variables of the first   *)
(* part play no role there.                                                *)
(*                                                                         *)
(* RecorderInv is the inductive invariant of a session. Lock says why a    *)
(* command finds the device unlocked. The other parts follow the one erase *)
(* that can be under way while none was cancelled: as a request, as a      *)
(* command on the air, in the device and as its reports in the FIFO.       *)
(***************************************************************************)
EXTENDS RecorderRequests, RecorderSession, DriverLemmas, TLAPS

------------------------------------------------------------------------------
(* The driver, under any environment.                                       *)

(* The commands the recorder sends are packets.                             *)
LEMMA CommandTypes ==
  ASSUME config \in Nat
  PROVE  /\ \A enable \in Nat : RecConfig(enable) \in UbxPacket
         /\ \A code \in Nat : Packet(UBX_ID_MEM_UNLOCK, 4, code) \in UbxPacket
         /\ Packet(UBX_ID_ERASE, 0, 0) \in UbxPacket
         /\ Packet(UBX_ID_ERASE, 1, 0) \in UbxPacket
         /\ Packet(UBX_ID_REC_STATUS, 0, 0) \in UbxPacket
BY DEF RecConfig, Packet, UbxPacket, UBX_CLASS_RACEBOX, UBX_ID_REC_CONFIG, UBX_ID_MEM_UNLOCK,
       UBX_ID_ERASE, UBX_ID_REC_STATUS

(* Sending puts at most one packet on the air and keeps the timer a time.   *)
LEMMA SendType ==
  ASSUME NEW cmd \in UbxPacket, NEW since \in Time, millis \in Time, NEW ok, Send(cmd, since, ok)
  PROVE  tx' \in Seq(UbxPacket) /\ cmdSentMs' \in Time
<1>1. tx' \in Seq(UbxPacket)
  BY AtMostOne DEF Send
<1>2. cmdSentMs' \in Time
  BY DEF Send
<1>. QED
  BY <1>1, <1>2

(* A request keeps every variable in its type but the configuration.        *)
LEMMA RequestType ==
  ASSUME TypeOK, NEW cmd \in Pending, NEW ok, Request(cmd, ok), config' \in Nat
  PROVE  TypeOK'
<1>1. Packet(UBX_ID_MEM_UNLOCK, 4, securityCode) \in UbxPacket
  BY CommandTypes DEF TypeOK
<1>2. tx' \in Seq(UbxPacket) /\ cmdSentMs' \in Time
  BY <1>1, SendType DEF TypeOK, Request
<1>3. pendingCmd' \in Pending
  BY DEF Request, Remember
<1>4. calls' = <<>> /\ UNCHANGED <<reports, lastAck, erase, securityCode, millis>>
  BY DEF Request
<1>. QED
  BY <1>2, <1>3, <1>4 DEF TypeOK, reports, erase

(* A call of the application's, update() and the clock keep every variable  *)
(* in its type.                                                             *)
LEMMA CallTypeOK ==
  ASSUME TypeOK,
         \/ \E ok \in BOOLEAN :
              \/ StartRecording(ok) \/ StopRecording(ok) \/ EraseMemory(ok)
              \/ CancelErase(ok) \/ QueryStatus(ok)
              \/ \E rate \in Rates : StartRecordingWith(rate, ok)
         \/ \E rate \in Rates : SetConfig(rate)
         \/ \E code \in Codes : SetSecurityCode(code)
         \/ SetEraseProgressCallback
         \/ Update
         \/ Tick
         \/ Silent
  PROVE  TypeOK'
<1>1. ASSUME NEW ok \in BOOLEAN, StartRecording(ok) PROVE TypeOK'
  BY <1>1, RequestType DEF TypeOK, StartRecording, Pending
<1>2. ASSUME NEW ok \in BOOLEAN, StopRecording(ok) PROVE TypeOK'
  BY <1>2, RequestType DEF TypeOK, StopRecording, Pending
<1>3. ASSUME NEW ok \in BOOLEAN, EraseMemory(ok) PROVE TypeOK'
  <2>1. CASE MayErase
    BY <1>3, <2>1, RequestType DEF TypeOK, EraseMemory, Pending
  <2>2. CASE ~MayErase
    BY <1>3, <2>2 DEF TypeOK, EraseMemory, reports, erase
  <2>. QED
    BY <2>1, <2>2
<1>4. ASSUME NEW ok \in BOOLEAN, CancelErase(ok) PROVE TypeOK'
  <2>1. tx' \in Seq(UbxPacket)
    BY <1>4, CommandTypes, AtMostOne DEF TypeOK, CancelErase
  <2>2. isErasing' \in BOOLEAN /\ eraseCb' \in BOOLEAN
    BY <1>4 DEF CancelErase
  <2>3. calls' = <<>> /\ UNCHANGED <<reports, lastAck, cmdSentMs, settings, eraseProgress, pendingCmd, millis>>
    BY <1>4 DEF CancelErase
  <2>. QED
    BY <2>1, <2>2, <2>3 DEF TypeOK, reports, settings
<1>5. ASSUME NEW ok \in BOOLEAN, QueryStatus(ok) PROVE TypeOK'
  <2>1. tx' \in Seq(UbxPacket) /\ cmdSentMs' \in Time
    BY <1>5, CommandTypes, SendType DEF TypeOK, QueryStatus
  <2>. QED
    BY <1>5, <2>1 DEF TypeOK, QueryStatus, reports, settings, erase
<1>6. ASSUME NEW ok \in BOOLEAN, NEW rate \in Rates, StartRecordingWith(rate, ok) PROVE TypeOK'
  BY <1>6, RequestType, RecorderAssumptions DEF StartRecordingWith, Pending
<1>7. ASSUME NEW rate \in Rates, SetConfig(rate) PROVE TypeOK'
  BY <1>7, RecorderAssumptions DEF TypeOK, SetConfig, reports, erase
<1>8. ASSUME NEW code \in Codes, SetSecurityCode(code) PROVE TypeOK'
  BY <1>8, RecorderAssumptions DEF TypeOK, SetSecurityCode, reports, erase
<1>9. CASE SetEraseProgressCallback
  BY <1>9 DEF TypeOK, SetEraseProgressCallback, reports, settings
<1>10. CASE Update
  <2>1. lastAck' \in BOOLEAN
    BY <1>10 DEF TypeOK, Update
  <2>2. cmdSentMs' \in Time /\ pendingCmd' \in Pending
    BY <1>10, ZeroIsTime DEF TypeOK, Update, Pending
  <2>. QED
    BY <1>10, <2>1, <2>2 DEF TypeOK, Update, reports, settings, erase
<1>11. CASE Tick
  BY <1>11, TimeLaws DEF TypeOK, Tick, reports, settings, erase
<1>12. CASE Silent
  BY <1>12 DEF TypeOK, Silent, reports, settings, erase
<1>. QED
  BY <1>1, <1>2, <1>3, <1>4, <1>5, <1>6, <1>7, <1>8, <1>9, <1>10, <1>11, <1>12

(* The callbacks' arguments.                                                *)
LEMMA ProgressType ==
  ASSUME NEW percent \in Nat, ReportProgress(percent)
  PROVE  calls' \in Seq(Call)
<1>1. [fn |-> "eraseProgress", data |-> percent] \in Call
  BY DEF Call
<1>. QED
  BY <1>1, AtMostOne DEF ReportProgress

(* A state change reports a confirmed configuration, then the new state, to *)
(* the callbacks there are.                                                 *)
LEMMA StateChangeCallsType ==
  ASSUME NEW pkt \in UbxPacket, StateChanged(pkt), confirmedConfig' \in Nat
  PROVE  calls' \in Seq(Call)
<1>. DEFINE confirmed == [fn |-> "configConfirmed", data |-> confirmedConfig']
            changed == [fn |-> "stateChange", data |-> Event(pkt.arg)]
<1>1. confirmed \in Call /\ changed \in Call
  BY DEF Call, Event
<1>2. \E first \in {<<confirmed>>, <<>>}, last \in {<<changed>>, <<>>} : calls' = first \o last
  BY DEF StateChanged
<1>. HIDE DEF confirmed, changed
<1>3. <<changed>> \in Seq(Call) /\ <<confirmed>> \in Seq(Call) /\ <<>> \in Seq(Call)
  BY <1>1
<1>4. \A first, last \in Seq(Call) : first \o last \in Seq(Call)
  OBVIOUS
<1>. QED
  BY <1>2, <1>3, <1>4

(* What an unlock ACK releases keeps its variables in their types.          *)
LEMMA SendPendingType ==
  ASSUME TypeOK, NEW ok \in BOOLEAN, SendPending(0, ok)
  PROVE  /\ tx' \in Seq(UbxPacket) /\ cmdSentMs' \in Time
         /\ isErasing' \in BOOLEAN /\ eraseProgress' \in Nat /\ eraseCb' \in BOOLEAN
<1>1. config \in Nat /\ millis \in Time /\ 0 \in Time /\ pendingCmd \in Pending
  BY ZeroIsTime DEF TypeOK
<1>2. RecConfig(1) \in UbxPacket /\ RecConfig(0) \in UbxPacket /\ Packet(UBX_ID_ERASE, 0, 0) \in UbxPacket
  BY <1>1, CommandTypes
<1>3. \/ \E cmd \in UbxPacket : Send(cmd, 0, ok)
      \/ tx' = <<>> /\ cmdSentMs' = 0
  BY <1>1, <1>2 DEF SendPending, Pending
<1>4. tx' \in Seq(UbxPacket) /\ cmdSentMs' \in Time
  <2>1. ASSUME NEW cmd \in UbxPacket, Send(cmd, 0, ok) PROVE tx' \in Seq(UbxPacket) /\ cmdSentMs' \in Time
    BY <1>1, <2>1, SendType
  <2>2. CASE tx' = <<>> /\ cmdSentMs' = 0
    BY <1>1, <2>2
  <2>. QED
    BY <1>3, <2>1, <2>2
<1>5. EraseBegins \/ UNCHANGED erase
  BY <1>1 DEF SendPending, Pending
<1>6. CASE EraseBegins
  BY <1>4, <1>6 DEF EraseBegins, TypeOK
<1>7. CASE UNCHANGED erase
  BY <1>4, <1>7 DEF erase, TypeOK
<1>. QED
  BY <1>5, <1>6, <1>7

(* A packet keeps every variable in its type.                               *)
LEMMA PacketTypeOK ==
  ASSUME TypeOK, NEW pkt \in UbxPacket, NEW ok \in BOOLEAN, OnPacket(pkt, ok)
  PROVE  TypeOK'
<1>. USE DEF reports, settings, erase
<1>1. UNCHANGED <<settings, millis>>
  BY DEF OnPacket
<1>2. pkt.arg \in Nat /\ pkt.aux \in Nat
  BY DEF UbxPacket
<1>3. CASE StatusReported(pkt)
  BY <1>1, <1>2, <1>3, ZeroIsTime DEF TypeOK, StatusReported
<1>4. CASE UnlockAcked(pkt, ok)
  <2>1. pendingCmd' \in Pending /\ lastAck' \in BOOLEAN
    BY <1>4 DEF UnlockAcked, TakePending, Pending
  <2>2. SendPending(0, ok) /\ calls' = <<>> /\ UNCHANGED reports
    BY <1>4 DEF UnlockAcked
  <2>. QED
    BY <1>1, <2>1, <2>2, SendPendingType DEF TypeOK
<1>5. CASE EraseAcked(pkt)
  <2>1. calls' \in Seq(Call)
    BY <1>5, ProgressType DEF EraseAcked
  <2>2. lastAck' \in BOOLEAN /\ isErasing' \in BOOLEAN
    BY <1>5 DEF EraseAcked
  <2>3. cmdSentMs' = 0 /\ eraseProgress' = 100 /\ tx' = <<>> /\ UNCHANGED <<reports, eraseCb, pendingCmd>>
    BY <1>5 DEF EraseAcked
  <2>. QED
    BY <1>1, <2>1, <2>2, <2>3, ZeroIsTime DEF TypeOK
<1>6. CASE OtherAcked(pkt)
  <2>1. lastAck' \in BOOLEAN
    BY <1>6 DEF OtherAcked
  <2>2. cmdSentMs' = 0 /\ tx' = <<>> /\ calls' = <<>> /\ UNCHANGED <<reports, erase, pendingCmd>>
    BY <1>6 DEF OtherAcked
  <2>. QED
    BY <1>1, <2>1, <2>2, ZeroIsTime DEF TypeOK
<1>7. CASE Nacked(pkt)
  <2>1. lastAck' \in BOOLEAN /\ pendingCmd' \in Pending
    BY <1>7 DEF Nacked, Pending
  <2>2. cmdSentMs' = 0 /\ tx' = <<>> /\ calls' = <<>> /\ UNCHANGED <<reports, erase>>
    BY <1>7 DEF Nacked
  <2>. QED
    BY <1>1, <2>1, <2>2, ZeroIsTime DEF TypeOK
<1>8. CASE EraseProgressed(pkt)
  <2>1. calls' \in Seq(Call)
    BY <1>2, <1>8, ProgressType DEF EraseProgressed
  <2>. QED
    BY <1>1, <1>2, <1>8, <2>1 DEF TypeOK, EraseProgressed
<1>9. CASE StateChanged(pkt)
  <2>1. dataRate' \in Nat /\ confirmedConfig' \in Nat
    BY <1>2, <1>9 DEF TypeOK, StateChanged
  <2>2. calls' \in Seq(Call)
    BY <1>9, <2>1, StateChangeCallsType
  <2>3. recState' = pkt.arg /\ tx' = <<>> /\ UNCHANGED <<status, lastAck, cmdSentMs, erase, pendingCmd>>
    BY <1>9 DEF StateChanged
  <2>. QED
    BY <1>1, <1>2, <2>1, <2>2, <2>3 DEF TypeOK
<1>10. CASE Ignored(pkt)
  BY <1>1, <1>10 DEF TypeOK, Ignored
<1>. QED
  BY <1>3, <1>4, <1>5, <1>6, <1>7, <1>8, <1>9, <1>10 DEF OnPacket

(* The initial state is in the types.                                       *)
LEMMA InitTypeOK == Init => TypeOK
<1>. SUFFICES ASSUME Init PROVE TypeOK
  OBVIOUS
<1>1. lastAck \in BOOLEAN /\ isErasing \in BOOLEAN /\ eraseCb \in BOOLEAN
  BY DEF Init
<1>2. cmdSentMs \in Time /\ millis \in Time /\ pendingCmd \in Pending
  BY ZeroIsTime DEF Init, Pending
<1>3. /\ recState \in Nat /\ status \in Nat /\ dataRate \in Nat /\ config \in Nat
      /\ confirmedConfig \in Nat /\ eraseProgress \in Nat /\ securityCode \in Nat
  BY RecorderAssumptions DEF Init, UNKNOWN
<1>4. tx \in Seq(UbxPacket) /\ calls \in Seq(Call)
  BY DEF Init
<1>. QED
  BY <1>1, <1>2, <1>3, <1>4 DEF TypeOK

(* Every step stays in the types.                                           *)
LEMMA StepTypeOK == TypeOK /\ [Next]_recVars => TypeOK'
<1>. SUFFICES ASSUME TypeOK, [Next]_recVars PROVE TypeOK'
  OBVIOUS
<1>1. CASE \E pkt \in Deliverable, ok \in BOOLEAN : OnPacket(pkt, ok)
  BY <1>1, PacketTypeOK, RecorderAssumptions
<1>2. CASE UNCHANGED recVars
  BY <1>2 DEF recVars, TypeOK
<1>. QED
  BY <1>1, <1>2, CallTypeOK DEF Next

(* Every variable of the recorder stays in its type, under any environment. *)
THEOREM TypeCorrect == Spec => []TypeOK
BY InitTypeOK, StepTypeOK, PTL DEF Spec

------------------------------------------------------------------------------
(* The history of the requests only observes.                               *)
LEMMA HistoryObserves == HNext => Next
BY DEF HNext, Next, AskStart, AskStop, AskErase, Receive, Elsewhere

(* A remembered request is the latest one, and one that is remembered has   *)
(* not been sent.                                                           *)
RequestInv ==
  /\ TypeOK
  /\ requests \in Nat /\ sent \in Nat
  /\ pendingCmd = "NONE" \/ pendingCmd = latest
  /\ OncePerRequest

(* Only an unlock ACK sends, only for a remembered request, and once.       *)
LEMMA PacketSends ==
  ASSUME TypeOK, NEW pkt \in UbxPacket, NEW ok \in BOOLEAN, OnPacket(pkt, ok)
  PROVE  \/ tx' = <<>> /\ pendingCmd' \in {pendingCmd, "NONE"}
         \/ /\ pendingCmd # "NONE" /\ pendingCmd' = "NONE"
            /\ \E cmd \in UbxPacket : tx' = <<cmd>> /\ Kind(cmd) = pendingCmd
<1>1. CASE UnlockAcked(pkt, ok)
  <2>1. pendingCmd' = "NONE" /\ SendPending(0, ok)
    BY <1>1 DEF UnlockAcked, TakePending
  <2>2. /\ RecConfig(1) \in UbxPacket /\ RecConfig(0) \in UbxPacket
        /\ Packet(UBX_ID_ERASE, 0, 0) \in UbxPacket
    BY CommandTypes DEF TypeOK
  <2>3. /\ Kind(RecConfig(1)) = "START" /\ Kind(RecConfig(0)) = "STOP"
        /\ Kind(Packet(UBX_ID_ERASE, 0, 0)) = "ERASE"
    BY DEF Kind, RecConfig, Packet, UBX_ID_ERASE, UBX_ID_REC_CONFIG
  <2>4. CASE pendingCmd = "START"
    BY <2>1, <2>2, <2>3, <2>4 DEF SendPending, Send
  <2>5. CASE pendingCmd = "STOP"
    BY <2>1, <2>2, <2>3, <2>5 DEF SendPending, Send
  <2>6. CASE pendingCmd = "ERASE"
    BY <2>1, <2>2, <2>3, <2>6 DEF SendPending, Send
  <2>7. CASE pendingCmd = "NONE"
    BY <2>1, <2>7 DEF SendPending
  <2>. QED
    BY <2>4, <2>5, <2>6, <2>7 DEF TypeOK, Pending
<1>2. CASE ~UnlockAcked(pkt, ok)
  BY <1>2 DEF OnPacket, StatusReported, EraseAcked, OtherAcked, Nacked, EraseProgressed,
              StateChanged, Ignored
<1>. QED
  BY <1>1, <1>2

(* A call of the application's, update() and the clock send nothing for a   *)
(* request; a request that is accepted becomes the remembered one.          *)
LEMMA RequestStep == RequestInv /\ [HNext]_requestVars => RequestInv'
<1>. SUFFICES ASSUME RequestInv, [HNext]_requestVars PROVE RequestInv'
  OBVIOUS
<1>1. TypeOK'
  BY HistoryObserves, StepTypeOK DEF RequestInv, requestVars
<1>. USE DEF RequestInv, OncePerRequest
<1>2. ASSUME NEW ok \in BOOLEAN, AskStart(ok) \/ AskStop(ok) PROVE RequestInv'
  <2>1. requests' = requests + 1 /\ sent' = sent /\ pendingCmd' = latest'
    BY <1>2 DEF AskStart, AskStop, Asks, StartRecording, StartRecordingWith, StopRecording, Request, Remember
  <2>. QED
    BY <1>1, <2>1
<1>3. ASSUME NEW ok \in BOOLEAN, AskErase(ok) PROVE RequestInv'
  <2>1. CASE isErasing
    <3>1. UNCHANGED <<requests, sent, latest, pendingCmd>>
      BY <1>3, <2>1 DEF AskErase, EraseMemory, MayErase, history
    <3>. QED
      BY <1>1, <3>1
  <2>2. CASE ~isErasing
    <3>1. requests' = requests + 1 /\ sent' = sent /\ pendingCmd' = latest'
      BY <1>3, <2>2 DEF AskErase, Asks, EraseMemory, MayErase, Request, Remember
    <3>. QED
      BY <1>1, <3>1
  <2>. QED
    BY <2>1, <2>2
<1>4. ASSUME NEW pkt \in Deliverable, NEW ok \in BOOLEAN, Receive(pkt, ok) PROVE RequestInv'
  <2>1. \/ tx' = <<>> /\ pendingCmd' \in {pendingCmd, "NONE"}
        \/ /\ pendingCmd # "NONE" /\ pendingCmd' = "NONE"
           /\ \E cmd \in UbxPacket : tx' = <<cmd>> /\ Kind(cmd) = pendingCmd
    BY <1>4, PacketSends, RecorderAssumptions DEF Receive
  <2>2. sent' = sent + Len(tx') /\ UNCHANGED <<requests, latest>>
    BY <1>4 DEF Receive
  <2>3. CASE tx' = <<>> /\ pendingCmd' \in {pendingCmd, "NONE"}
    <3>1. sent' = sent
      BY <2>2, <2>3
    <3>. QED
      BY <1>1, <2>2, <2>3, <3>1
  <2>4. CASE pendingCmd # "NONE" /\ pendingCmd' = "NONE" /\ \E cmd \in UbxPacket : tx' = <<cmd>>
    <3>1. sent' = sent + 1
      BY <2>2, <2>4
    <3>. QED
      BY <1>1, <2>2, <2>4, <3>1
  <2>. QED
    BY <2>1, <2>3, <2>4
<1>5. CASE Elsewhere \/ UNCHANGED requestVars
  <2>1. UNCHANGED <<requests, sent, latest>>
    BY <1>5 DEF Elsewhere, history, requestVars
  <2>2. pendingCmd' \in {pendingCmd, "NONE"}
    BY <1>5 DEF Elsewhere, QueryStatus, Update, SetEraseProgressCallback, CancelErase, SetConfig, SetSecurityCode, Tick, requestVars, recVars
  <2>. QED
    BY <1>1, <2>1, <2>2
<1>. QED
  BY <1>2, <1>3, <1>4, <1>5 DEF HNext

(* A command waiting for the unlock is the latest one requested, and no     *)
(* more were sent than requested.                                           *)
LEMMA RequestInvariant == HSpec => []RequestInv
<1>1. HInit => RequestInv
  BY InitTypeOK DEF HInit, Init, RequestInv, OncePerRequest
<1>. QED
  BY <1>1, RequestStep, PTL DEF HSpec

(* No request is served twice, whatever the environment delivers and for    *)
(* any number of requests.                                                  *)
THEOREM OncePerRequestHolds == HSpec => []OncePerRequest
<1>1. RequestInv => OncePerRequest
  BY DEF RequestInv
<1>. QED
  BY <1>1, RequestInvariant, PTL

(* A superseded request is never sent, whatever the environment delivers.   *)
THEOREM OnlyLatestRequestIsSentHolds == HSpec => OnlyLatestRequestIsSent
<1>1. RequestInv /\ [HNext]_requestVars => [sent' > sent => Kind(tx'[1]) = latest]_requestVars
  <2>. SUFFICES ASSUME RequestInv, HNext, sent' > sent PROVE Kind(tx'[1]) = latest
    BY DEF RequestInv
  <2>1. CASE \E pkt \in Deliverable, ok \in BOOLEAN : Receive(pkt, ok)
    <3>1. PICK pkt \in Deliverable, ok \in BOOLEAN : Receive(pkt, ok)
      BY <2>1
    <3>2. sent' = sent + Len(tx')
      BY <3>1 DEF Receive
    <3>3. tx' # <<>>
      BY <3>2 DEF RequestInv
    <3>4. pendingCmd # "NONE" /\ \E cmd \in UbxPacket : tx' = <<cmd>> /\ Kind(cmd) = pendingCmd
      BY <3>1, <3>3, PacketSends, RecorderAssumptions DEF Receive, RequestInv
    <3>. QED
      BY <3>4 DEF RequestInv
  <2>2. CASE ~\E pkt \in Deliverable, ok \in BOOLEAN : Receive(pkt, ok)
    <3>1. sent' = sent
      BY <2>2 DEF HNext, AskStart, AskStop, AskErase, Asks, Elsewhere, history
    <3>. QED
      BY <3>1 DEF RequestInv
  <2>. QED
    BY <2>1, <2>2
<1>. QED
  BY <1>1, RequestInvariant, PTL DEF HSpec, OnlyLatestRequestIsSent

------------------------------------------------------------------------------
(* A session.                                                               *)

IsErase(pkt) == pkt.id = UBX_ID_ERASE
IsErased(pkt) == pkt.id = UBX_ID_ACK /\ pkt.arg = UBX_ID_ERASE
IsEraseReport(pkt) == IsErase(pkt) \/ IsErased(pkt)

\* An unlock ACK and a command both mean an unlocked device: the loss that locks it
\* empties the FIFO and the air.
Lock ==
  /\ \A i \in DOMAIN fifo : IsUnlockAck(fifo[i]) => dev.unlocked
  /\ CommandMeetsUnlockedDevice

\* A recording command on the air says whether to record.
Enables == \A i \in DOMAIN toDev : toDev[i].id = UBX_ID_REC_CONFIG => toDev[i].arg \in {0, 1}

\* While the driver knows of an erase it remembers no request for another.
OneErase == pendingCmd = "ERASE" => ~isErasing

\* The erase command under way is the only one, and nothing of an erase is elsewhere.
Commanded ==
  \A i \in DOMAIN toDev : IsErase(toDev[i]) =>
    /\ toDev[i].len = 0
    /\ isErasing /\ eraseProgress = 0 /\ ~dev.erasing
    /\ \A j \in DOMAIN toDev : IsErase(toDev[j]) => j = i
    /\ \A j \in DOMAIN fifo : ~IsEraseReport(fifo[j])

\* The driver knows of the erase the device is at, whose end is not reported yet.
AtWork == dev.erasing => isErasing /\ \A i \in DOMAIN fifo : ~IsErased(fifo[i])

\* Reports are of the last erase, and the one of its end comes last.
Reported ==
  \A i \in DOMAIN fifo :
    /\ IsEraseReport(fifo[i]) => isErasing
    /\ IsErase(fifo[i]) => fifo[i].arg <= dev.progress
    /\ IsErased(fifo[i]) =>
         dev.progress = 100 /\ \A j \in DOMAIN fifo : IsEraseReport(fifo[j]) => j <= i

FirstErase ==
  cancels = 0 => Commanded /\ AtWork /\ Reported /\ eraseProgress <= dev.progress

RecorderInv == SessionTypeOK /\ Enables /\ Lock /\ OneErase /\ FirstErase

USE DEF UBX_CLASS_RACEBOX, UBX_ID_ACK, UBX_ID_NACK, UBX_ID_REC_STATUS, UBX_ID_ERASE,
        UBX_ID_REC_CONFIG, UBX_ID_STATE_CHANGE, UBX_ID_MEM_UNLOCK

------------------------------------------------------------------------------
(* Type correctness.                                                        *)

DeviceType == [unlocked : BOOLEAN, recording : {0, 1}, rate : Nat, owes : BOOLEAN,
               erasing : BOOLEAN, progress : Nat]

(* The types of the session hold those of its link.                         *)
LEMMA LinkTyped == SessionTypeOK => LinkTypeOK
BY DEF SessionTypeOK

(* What the device sends is a packet.                                       *)
LEMMA DevicePackets ==
  /\ \A id \in {UBX_ID_ACK, UBX_ID_NACK}, cmd \in Nat : Packet(id, 2, cmd) \in UbxPacket
  /\ \A n \in Nat : Packet(UBX_ID_ERASE, 1, n) \in UbxPacket
  /\ \A n \in Nat : Packet(UBX_ID_REC_STATUS, 12, n) \in UbxPacket
  /\ \A n, rate \in Nat : [Packet(UBX_ID_STATE_CHANGE, 12, n) EXCEPT !.aux = rate] \in UbxPacket
BY DEF Packet, UbxPacket

(* A notification is put at the back of the FIFO.                           *)
LEMMA NotifyArrives ==
  ASSUME SessionTypeOK, NEW pkt \in UbxPacket, Notify(pkt)
  PROVE  \E k : Arrived(pkt, k)
BY LinkTyped, PushArrives, LinkAssumptions DEF Notify

(* Reading a command leaves the others on the air.                          *)
LEMMA ReadType ==
  ASSUME SessionTypeOK, NEW id, Reads(id)
  PROVE  Read(id)
BY LinkTyped, DeviceReads DEF Reads

(* What the link carries stays in its type when the device sends or reads.  *)
LEMMA CarriedType ==
  ASSUME SessionTypeOK,
         toDev' = toDev \/ \E id : Reads(id),
         fifo' = fifo \/ \E pkt \in UbxPacket : Notify(pkt)
  PROVE  fifo' \in Seq(UbxPacket) /\ toDev' \in Seq(UbxPacket)
<1>1. fifo' \in Seq(UbxPacket)
  BY NotifyArrives DEF SessionTypeOK, LinkTypeOK, Arrived
<1>2. toDev' \in Seq(UbxPacket)
  BY ReadType DEF SessionTypeOK, LinkTypeOK, Read
<1>. QED
  BY <1>1, <1>2

(* The device reads a command or does not, sends a packet or does not, and  *)
(* stays in its type; a command says whether to record.                     *)
LEMMA DeviceSends ==
  ASSUME SessionTypeOK, Enables, Device
  PROVE  /\ toDev' = toDev \/ \E id : Reads(id)
         /\ fifo' = fifo \/ \E pkt \in UbxPacket : Notify(pkt)
         /\ dev' \in DeviceType /\ events' \in Nat
<1>1. dev \in DeviceType /\ events \in Nat
  BY DEF SessionTypeOK, DeviceType
<1>2. \A cmd \in Nat : Answer(UBX_ID_ACK, cmd) \/ Answer(UBX_ID_NACK, cmd)
                       => \E pkt \in UbxPacket : Notify(pkt)
  BY DevicePackets DEF Answer
<1>3. CASE DevUnlock
  <2>1. Reads(UBX_ID_MEM_UNLOCK) /\ events' = events
    BY <1>3 DEF DevUnlock
  <2>2. \E pkt \in UbxPacket : Notify(pkt)
    BY <1>2, <1>3 DEF DevUnlock
  <2>3. dev' \in DeviceType
    BY <1>1, <1>3 DEF DevUnlock, DeviceType
  <2>. QED
    BY <1>1, <2>1, <2>2, <2>3
<1>4. CASE DevRefuses
  BY <1>1, <1>2, <1>4 DEF DevRefuses
<1>5. CASE DevConfigure
  <2>1. Reads(UBX_ID_REC_CONFIG) /\ events' = events
    BY <1>5 DEF DevConfigure
  <2>2. \E pkt \in UbxPacket : Notify(pkt)
    BY <1>2, <1>5 DEF DevConfigure
  <2>3. Head(toDev).arg \in {0, 1} /\ Head(toDev).aux \in Nat
    BY <2>1, ReadType DEF Read, Enables, UbxPacket
  <2>4. dev' \in DeviceType
    BY <1>1, <1>5, <2>3 DEF DevConfigure, DeviceType
  <2>. QED
    BY <1>1, <2>1, <2>2, <2>4
<1>6. CASE DevEraseStart
  <2>1. dev' \in DeviceType
    BY <1>1, <1>6 DEF DevEraseStart, DeviceType
  <2>. QED
    BY <1>1, <1>6, <2>1 DEF DevEraseStart
<1>7. CASE DevEraseCancel
  <2>1. dev' \in DeviceType
    BY <1>1, <1>7 DEF DevEraseCancel, DeviceType
  <2>. QED
    BY <1>1, <1>2, <1>7, <2>1 DEF DevEraseCancel
<1>8. CASE DevProgress
  <2>1. dev' \in DeviceType
    BY <1>1, <1>8 DEF DevProgress, DeviceType
  <2>. QED
    BY <1>1, <1>8, <2>1, DevicePackets DEF DevProgress
<1>9. CASE DevErased
  <2>1. dev' \in DeviceType
    BY <1>1, <1>9 DEF DevErased, DeviceType
  <2>. QED
    BY <1>1, <1>2, <1>9, <2>1 DEF DevErased
<1>10. CASE DevStatus
  <2>1. dev.recording \in Nat
    BY <1>1 DEF DeviceType
  <2>. QED
    BY <1>1, <1>10, <2>1, DevicePackets DEF DevStatus
<1>11. CASE DevReport
  <2>1. dev.recording \in Nat /\ (IF EchoesRate THEN dev.rate ELSE 0) \in Nat
    BY <1>1 DEF DeviceType
  <2>2. \E pkt \in UbxPacket : Notify(pkt)
    BY <1>11, <2>1, DevicePackets DEF DevReport
  <2>3. dev' \in DeviceType
    BY <1>1, <1>11 DEF DevReport, DeviceType
  <2>. QED
    BY <1>1, <1>11, <2>2, <2>3 DEF DevReport
<1>12. CASE DevButton
  <2>1. dev' \in DeviceType
    <3>1. \A n \in {0, 1} : 1 - n \in {0, 1}
      OBVIOUS
    <3>2. 1 - dev.recording \in {0, 1}
      BY <1>1, <3>1 DEF DeviceType
    <3>3. dev' = [dev EXCEPT !.recording = 1 - dev.recording, !.owes = TRUE]
      BY <1>12 DEF DevButton
    <3>. QED
      BY <1>1, <3>2, <3>3 DEF DeviceType
  <2>. QED
    BY <1>1, <1>12, <2>1 DEF DevButton
<1>. QED
  BY <1>3, <1>4, <1>5, <1>6, <1>7, <1>8, <1>9, <1>10, <1>11, <1>12 DEF Device

(* A call of the application's stays in the types of the driver.            *)
LEMMA AppTypeOK ==
  ASSUME SessionTypeOK, App
  PROVE  TypeOK' /\ asked' \in Nat /\ cancels' \in Nat
<1>1. TypeOK'
  BY CallTypeOK DEF App, AppRequest, AppQuery, AppCancel, AppConfigure, Results, SessionTypeOK
<1>2. asked' \in Nat /\ cancels' \in Nat
  BY DEF App, AppRequest, AppQuery, AppCancel, AppConfigure, AskedOnceMore, appVars, SessionTypeOK
<1>. QED
  BY <1>1, <1>2

(* Every step of the session keeps every variable in its type.              *)
LEMMA SessionTypeStep ==
  ASSUME SessionTypeOK, Enables, [SessionNext]_vars
  PROVE  SessionTypeOK'
<1>0. TypeOK' /\ Transmit(tx') => toDev' \in Seq(UbxPacket)
  BY DEF SessionTypeOK, LinkTypeOK, TypeOK, Transmit
<1>1. CASE Dispatch
  <2>1. Taken /\ fifo' \in Seq(UbxPacket)
    BY <1>1, LinkTyped, ExtractTakes DEF Dispatch, Taken
  <2>2. TypeOK'
    BY <1>1, <2>1, PacketTypeOK DEF Dispatch, Results, Taken, SessionTypeOK
  <2>. QED
    BY <1>0, <1>1, <2>1, <2>2 DEF Dispatch, loopVars, devVars, appVars, SessionTypeOK, LinkTypeOK
<1>2. CASE Reconnect
  BY <1>2, CallTypeOK DEF Reconnect, LinkUp, loopVars, devVars, appVars, SessionTypeOK, LinkTypeOK
<1>3. CASE Watch
  BY <1>3, CallTypeOK DEF Watch, linkVars, devVars, appVars, SessionTypeOK, LinkTypeOK
<1>4. CASE App
  BY <1>0, <1>4, AppTypeOK DEF App, AppStep, loopVars, devVars, SessionTypeOK, LinkTypeOK
<1>5. CASE LoopAgain
  BY <1>5, CallTypeOK DEF LoopAgain, linkVars, devVars, appVars, SessionTypeOK, LinkTypeOK
<1>6. CASE ClockTick
  BY <1>6, CallTypeOK DEF ClockTick, linkVars, devVars, appVars, SessionTypeOK, LinkTypeOK
<1>7. CASE Drop
  <2>1. TypeOK'
    BY <1>7, CallTypeOK DEF Drop, SessionTypeOK
  <2>2. dev' \in DeviceType
    BY <1>7 DEF Drop, SessionTypeOK, DeviceType
  <2>3. connected' = FALSE /\ drops' = drops + 1 /\ fifo' = <<>> /\ toDev' = <<>>
    BY <1>7 DEF Drop, LinkDown, ClearFifo
  <2>4. connected' \in BOOLEAN
    BY <2>3
  <2>5. LinkTypeOK'
    BY <2>3, <2>4 DEF SessionTypeOK, LinkTypeOK
  <2>. QED
    BY <1>7, <2>1, <2>2, <2>5 DEF Drop, loopVars, appVars, SessionTypeOK, DeviceType
<1>8. CASE Device
  <2>1. TypeOK' /\ UNCHANGED <<connected, drops, loopVars, appVars>>
    BY <1>8, CallTypeOK DEF Device, SessionTypeOK
  <2>2. fifo' \in Seq(UbxPacket) /\ toDev' \in Seq(UbxPacket) /\ dev' \in DeviceType /\ events' \in Nat
    BY <1>8, DeviceSends, CarriedType
  <2>. QED
    BY <2>1, <2>2 DEF SessionTypeOK, LinkTypeOK, DeviceType, loopVars, appVars
<1>9. CASE UNCHANGED vars
  BY <1>9 DEF vars, recVars, linkVars, loopVars, devVars, appVars, SessionTypeOK, TypeOK, LinkTypeOK
<1>. QED
  BY <1>1, <1>2, <1>3, <1>4, <1>5, <1>6, <1>7, <1>8, <1>9 DEF SessionNext


------------------------------------------------------------------------------
(* What the steps of the loop and of the application do to the session.     *)

\* A dispatched packet, or an unlock ACK whose command was not sent, that leaves the
\* erase alone.
Passed ==
  /\ UNCHANGED <<isErasing, eraseProgress, toDev>>
  /\ pendingCmd' \in {pendingCmd, "NONE"}

\* An unlock ACK released a start or a stop.
Controlled ==
  /\ IsUnlockAck(fifo[1])
  /\ UNCHANGED <<isErasing, eraseProgress>>
  /\ pendingCmd' = "NONE"
  /\ \E cmd \in UbxPacket : Aired(cmd) /\ cmd.id = UBX_ID_REC_CONFIG /\ cmd.arg \in {0, 1}

\* An unlock ACK released an erase.
EraseReleased ==
  /\ IsUnlockAck(fifo[1])
  /\ pendingCmd = "ERASE" /\ pendingCmd' = "NONE"
  /\ isErasing' = TRUE /\ eraseProgress' = 0
  /\ Aired(Packet(UBX_ID_ERASE, 0, 0))

EraseReportTaken ==
  /\ IsErase(fifo[1])
  /\ eraseProgress' = fifo[1].arg
  /\ UNCHANGED <<isErasing, pendingCmd, toDev>>

EraseEndTaken ==
  /\ IsErased(fifo[1])
  /\ isErasing' = FALSE /\ eraseProgress' = 100
  /\ UNCHANGED <<pendingCmd, toDev>>

(* A dispatched packet leaves the erase alone, releases a command, or is a  *)
(* report of the erase.                                                     *)
LEMMA DispatchCases ==
  ASSUME SessionTypeOK, Dispatch
  PROVE  /\ Taken /\ UNCHANGED <<dev, cancels>>
         /\ Passed \/ Controlled \/ EraseReleased \/ EraseReportTaken \/ EraseEndTaken
<1>1. Taken /\ UNCHANGED <<dev, cancels>> /\ Transmit(tx')
  BY LinkTyped, ExtractTakes DEF Dispatch, devVars, appVars
<1>2. PICK ok \in BOOLEAN : OnPacket(fifo[1], ok)
  BY <1>1 DEF Dispatch, Results, Taken
<1>3. tx' = <<>> => toDev' = toDev
  BY <1>1, LinkTyped, TransmitNothing
<1>4. CASE UnlockAcked(fifo[1], ok)
  <2>1. IsUnlockAck(fifo[1]) /\ pendingCmd' = "NONE" /\ SendPending(0, ok)
    BY <1>4 DEF UnlockAcked, Is, Answers, TakePending, IsUnlockAck
  <2>2. \A enable \in {0, 1} : /\ RecConfig(enable) \in UbxPacket
                               /\ RecConfig(enable).id = UBX_ID_REC_CONFIG
                               /\ RecConfig(enable).arg = enable
    BY CommandTypes, ZenonT(40) DEF SessionTypeOK, TypeOK, RecConfig, Packet
  <2>3. \A cmd \in UbxPacket : Send(cmd, 0, ok) => toDev' = toDev \/ (ok /\ Aired(cmd))
    BY <1>1, <1>3, LinkTyped, TransmitAirs DEF Send
  <2>4. CASE pendingCmd \in {"START", "STOP"}
    <3>1. (Send(RecConfig(1), 0, ok) \/ Send(RecConfig(0), 0, ok)) /\ UNCHANGED erase
      BY <2>1, <2>4 DEF SendPending
    <3>. QED
      BY <1>1, <2>1, <2>2, <2>3, <3>1 DEF Controlled, Passed, erase
  <2>5. CASE pendingCmd = "ERASE"
    <3>1. /\ Send(Packet(UBX_ID_ERASE, 0, 0), 0, ok)
          /\ IF ok THEN EraseBegins ELSE UNCHANGED erase
      BY <2>1, <2>5 DEF SendPending
    <3>2. Packet(UBX_ID_ERASE, 0, 0) \in UbxPacket
      BY PacketType
    <3>3. CASE ok
      <4>1. Aired(Packet(UBX_ID_ERASE, 0, 0))
        BY <1>1, <3>1, <3>2, <3>3, LinkTyped, TransmitAirs DEF Send
      <4>. QED
        BY <1>1, <2>1, <2>5, <3>1, <3>3, <4>1 DEF EraseReleased, EraseBegins
    <3>4. CASE ~ok
      BY <1>1, <1>3, <2>1, <3>1, <3>4 DEF Send, Passed, erase
    <3>. QED
      BY <3>3, <3>4
  <2>6. CASE pendingCmd = "NONE"
    BY <1>1, <1>3, <2>1, <2>6 DEF SendPending, Passed, erase
  <2>. QED
    BY <1>1, <2>4, <2>5, <2>6 DEF SessionTypeOK, TypeOK, Pending
<1>5. CASE EraseAcked(fifo[1])
  BY <1>1, <1>3, <1>5 DEF EraseAcked, Is, Answers, EraseEndTaken, IsErased
<1>6. CASE EraseProgressed(fifo[1])
  BY <1>1, <1>3, <1>6 DEF EraseProgressed, Is, EraseReportTaken, IsErase
<1>7. CASE StatusReported(fifo[1]) \/ OtherAcked(fifo[1]) \/ Nacked(fifo[1])
           \/ StateChanged(fifo[1]) \/ Ignored(fifo[1])
  BY <1>1, <1>3, <1>7 DEF StatusReported, OtherAcked, Nacked, StateChanged, Ignored, Passed, erase
<1>. QED
  BY <1>2, <1>4, <1>5, <1>6, <1>7 DEF OnPacket

\* A step of the loop or the application that leaves the erase alone.
LoopStep ==
  \/ Watch \/ LoopAgain \/ ClockTick \/ Reconnect
  \/ (AppRequest \/ AppQuery \/ AppConfigure) /\ AppStep
  \/ UNCHANGED vars

(* Such a step sends an unlock or a status query at most, and remembers a   *)
(* request for an erase only when the driver knows of none.                 *)
LEMMA LoopCases ==
  ASSUME SessionTypeOK, LoopStep
  PROVE  /\ UNCHANGED <<fifo, dev, isErasing, eraseProgress, cancels>>
         /\ pendingCmd' = "ERASE" => pendingCmd = "ERASE" \/ ~isErasing
         /\ \/ toDev' = toDev
            \/ \E cmd \in UbxPacket :
                 Aired(cmd) /\ cmd.id \in {UBX_ID_MEM_UNLOCK, UBX_ID_REC_STATUS}
<1>1. CASE Watch \/ LoopAgain \/ ClockTick \/ Reconnect \/ UNCHANGED vars
  BY <1>1 DEF Watch, LoopAgain, ClockTick, Reconnect, LinkUp, Update, Silent, Tick, vars, recVars,
              linkVars, devVars, appVars, erase
<1>2. CASE (AppRequest \/ AppQuery \/ AppConfigure) /\ AppStep
  <2>1. Transmit(tx') /\ UNCHANGED <<fifo, dev, cancels>>
    BY <1>2 DEF AppStep, AppRequest, AppQuery, AppConfigure, devVars, appVars
  <2>2. tx' = <<>> => toDev' = toDev
    BY <2>1, LinkTyped, TransmitNothing
  <2>3. /\ UNCHANGED <<isErasing, eraseProgress>>
        /\ pendingCmd' = "ERASE" => pendingCmd = "ERASE" \/ ~isErasing
        /\ tx' \in {<<>>, <<Packet(UBX_ID_MEM_UNLOCK, 4, securityCode)>>,
                    <<Packet(UBX_ID_REC_STATUS, 0, 0)>>}
    <3>1. CASE AppRequest
      <4>1. \/ \E cmd \in {"START", "STOP"}, ok \in Results : Request(cmd, ok)
            \/ \E ok \in Results : Request("ERASE", ok) /\ ~isErasing
            \/ tx' = <<>> /\ UNCHANGED <<erase, pendingCmd>>
        BY <3>1 DEF AppRequest, StartRecording, StopRecording, StartRecordingWith, EraseMemory, MayErase
      <4>. QED
        BY <4>1 DEF Request, Remember, Send, erase
    <3>2. CASE AppQuery
      BY <3>2 DEF AppQuery, QueryStatus, Send, erase
    <3>3. CASE AppConfigure
      BY <3>3 DEF AppConfigure, SetConfig, SetSecurityCode, erase
    <3>. QED
      BY <1>2, <3>1, <3>2, <3>3
  <2>4. /\ Packet(UBX_ID_MEM_UNLOCK, 4, securityCode) \in UbxPacket
        /\ Packet(UBX_ID_MEM_UNLOCK, 4, securityCode).id = UBX_ID_MEM_UNLOCK
        /\ Packet(UBX_ID_REC_STATUS, 0, 0) \in UbxPacket
        /\ Packet(UBX_ID_REC_STATUS, 0, 0).id = UBX_ID_REC_STATUS
    BY CommandTypes DEF SessionTypeOK, TypeOK, Packet
  <2>. QED
    BY <2>1, <2>2, <2>3, <2>4, LinkTyped, TransmitAirs
<1>. QED
  BY <1>1, <1>2 DEF LoopStep


------------------------------------------------------------------------------
(* Each step keeps the invariant.                                           *)

(* What is left in the FIFO once its front was taken.                       *)
LEMMA TakenKeeps ==
  ASSUME Taken, dev' = dev
  PROVE  /\ Lock => \A i \in DOMAIN fifo' : IsUnlockAck(fifo'[i]) => dev'.unlocked
         /\ AtWork /\ isErasing' = isErasing => AtWork'
         /\ Reported /\ isErasing' = isErasing => Reported'
         /\ (\A i \in DOMAIN fifo : ~IsEraseReport(fifo[i]))
              => \A i \in DOMAIN fifo' : ~IsEraseReport(fifo'[i])
<1>1. \A i \in DOMAIN fifo' : i \in Nat /\ i + 1 \in DOMAIN fifo /\ fifo'[i] = fifo[i + 1]
  BY DEF Taken
<1>2. ASSUME Reported, isErasing' = isErasing PROVE Reported'
  <2>. SUFFICES ASSUME NEW i \in DOMAIN fifo'
                PROVE  /\ IsEraseReport(fifo'[i]) => isErasing
                       /\ IsErase(fifo'[i]) => fifo'[i].arg <= dev.progress
                       /\ IsErased(fifo'[i]) =>
                            /\ dev.progress = 100
                            /\ \A j \in DOMAIN fifo' : IsEraseReport(fifo'[j]) => j <= i
    BY <1>2 DEF Reported
  <2>1. i \in Nat /\ i + 1 \in DOMAIN fifo /\ fifo'[i] = fifo[i + 1]
    BY <1>1
  <2>2. ASSUME IsErased(fifo'[i]), NEW j \in DOMAIN fifo', IsEraseReport(fifo'[j]) PROVE j <= i
    <3>1. j \in Nat /\ j + 1 <= i + 1
      BY <1>1, <1>2, <2>1, <2>2 DEF Reported
    <3>. QED
      BY <2>1, <3>1
  <2>. QED
    BY <1>2, <2>1, <2>2 DEF Reported
<1>. QED
  BY <1>1, <1>2 DEF Lock, AtWork

(* What is on the air once a command joined it that is no erase.            *)
LEMMA AiredKeeps ==
  ASSUME NEW cmd, Aired(cmd), ~IsErase(cmd)
  PROVE  \A i \in DOMAIN toDev' : IsErase(toDev'[i]) => i \in DOMAIN toDev /\ toDev'[i] = toDev[i]
BY DEF Aired

(* Dispatching a packet keeps the invariant.                                *)
LEMMA DispatchStep ==
  ASSUME RecorderInv, Dispatch
  PROVE  RecorderInv'
<1>1. SessionTypeOK /\ SessionTypeOK' /\ Lock /\ Enables /\ OneErase
  BY SessionTypeStep DEF RecorderInv, SessionNext
<1>2. /\ Taken /\ dev' = dev /\ cancels' = cancels
      /\ Passed \/ Controlled \/ EraseReleased \/ EraseReportTaken \/ EraseEndTaken
  BY <1>1, DispatchCases
<1>3. \A i \in DOMAIN fifo' : IsUnlockAck(fifo'[i]) => dev'.unlocked
  BY <1>1, <1>2, TakenKeeps
<1>4. IsUnlockAck(fifo[1]) => dev'.unlocked
  BY <1>1, <1>2 DEF Lock, Taken
<1>5. eraseProgress \in Nat /\ dev.progress \in Nat /\ fifo[1].arg \in Nat
  BY <1>1, <1>2 DEF SessionTypeOK, TypeOK, Taken, UbxPacket
<1>6. Enables' /\ CommandMeetsUnlockedDevice'
  <2>1. CASE toDev' = toDev
    BY <1>1, <1>2, <2>1 DEF Enables, Lock, CommandMeetsUnlockedDevice
  <2>2. CASE Controlled
    BY <1>1, <1>2, <1>4, <2>2 DEF Controlled, Aired, Enables, Lock, CommandMeetsUnlockedDevice
  <2>3. CASE EraseReleased
    BY <1>1, <1>2, <1>4, <2>3 DEF EraseReleased, Aired, Packet, Enables, Lock, CommandMeetsUnlockedDevice
  <2>. QED
    BY <1>2, <2>1, <2>2, <2>3 DEF Passed, EraseReportTaken, EraseEndTaken
<1>7. OneErase'
  BY <1>1, <1>2 DEF OneErase, Passed, Controlled, EraseReleased, EraseReportTaken, EraseEndTaken
<1>8. ASSUME cancels' = 0
      PROVE  Commanded' /\ AtWork' /\ Reported' /\ eraseProgress' <= dev'.progress
  <2>1. Commanded /\ AtWork /\ Reported /\ eraseProgress <= dev.progress
    BY <1>2, <1>8 DEF RecorderInv, FirstErase
  <2>2. CASE Passed \/ Controlled
    <3>1. UNCHANGED <<isErasing, eraseProgress>>
      BY <2>2 DEF Passed, Controlled
    <3>2. \A i \in DOMAIN toDev' : IsErase(toDev'[i]) => i \in DOMAIN toDev /\ toDev'[i] = toDev[i]
      BY <2>2, AiredKeeps DEF Passed, Controlled, IsErase
    <3>3. Commanded'
      BY <1>2, <2>1, <3>1, <3>2, TakenKeeps DEF Commanded
    <3>. QED
      BY <1>2, <2>1, <3>1, <3>3, TakenKeeps
  <2>3. CASE EraseReleased
    <3>1. ~isErasing /\ isErasing' = TRUE /\ eraseProgress' = 0 /\ ~dev.erasing
      BY <1>1, <2>1, <2>3 DEF EraseReleased, OneErase, AtWork
    <3>2. /\ \A i \in DOMAIN fifo : ~IsEraseReport(fifo[i])
          /\ \A i \in DOMAIN toDev : ~IsErase(toDev[i])
      BY <2>1, <3>1 DEF Reported, Commanded
    <3>3. \A i \in DOMAIN fifo' : ~IsEraseReport(fifo'[i])
      BY <1>2, <3>2, TakenKeeps
    <3>4. \A i \in DOMAIN toDev' : IsErase(toDev'[i]) => i = Len(toDev) + 1 /\ toDev'[i].len = 0
      BY <2>3, <3>2 DEF EraseReleased, Aired, Packet
    <3>. QED
      BY <1>2, <1>5, <3>1, <3>3, <3>4 DEF Commanded, AtWork, Reported, IsEraseReport
  <2>4. CASE EraseReportTaken
    <3>1. IsEraseReport(fifo[1]) /\ fifo[1].arg <= dev.progress /\ UNCHANGED <<isErasing, toDev>>
      BY <1>2, <2>1, <2>4 DEF EraseReportTaken, IsEraseReport, Reported, Taken
    <3>2. Commanded'
      BY <1>2, <2>1, <3>1 DEF Commanded, Taken
    <3>. QED
      BY <1>2, <2>1, <2>4, <3>1, <3>2, TakenKeeps DEF EraseReportTaken
  <2>5. CASE EraseEndTaken
    <3>1. IsErased(fifo[1]) /\ 1 \in DOMAIN fifo /\ isErasing' = FALSE /\ eraseProgress' = 100 /\ toDev' = toDev
      BY <1>2, <2>5 DEF EraseEndTaken, Taken
    <3>2. dev.progress = 100 /\ ~dev.erasing /\ \A j \in DOMAIN fifo : IsEraseReport(fifo[j]) => j <= 1
      BY <2>1, <3>1 DEF Reported, AtWork
    <3>3. \A i \in DOMAIN fifo' : ~IsEraseReport(fifo'[i])
      BY <1>2, <3>2 DEF Taken
    <3>4. \A i \in DOMAIN toDev : ~IsErase(toDev[i])
      BY <2>1, <3>1 DEF Commanded, IsEraseReport
    <3>. QED
      BY <1>2, <3>1, <3>2, <3>3, <3>4 DEF Commanded, AtWork, Reported, IsEraseReport
  <2>. QED
    BY <1>2, <2>2, <2>3, <2>4, <2>5
<1>. QED
  BY <1>1, <1>3, <1>6, <1>7, <1>8 DEF RecorderInv, Lock, FirstErase

(* A step of the loop or a call that leaves the erase alone.                *)
LEMMA LoopKeeps ==
  ASSUME RecorderInv, SessionTypeOK', LoopStep
  PROVE  RecorderInv'
<1>1. /\ UNCHANGED <<fifo, dev, isErasing, eraseProgress, cancels>>
      /\ pendingCmd' = "ERASE" => pendingCmd = "ERASE" \/ ~isErasing
      /\ \/ toDev' = toDev
         \/ \E cmd \in UbxPacket : Aired(cmd) /\ cmd.id \in {UBX_ID_MEM_UNLOCK, UBX_ID_REC_STATUS}
  BY LoopCases DEF RecorderInv
<1>2. \A i \in DOMAIN toDev' :
        \/ i \in DOMAIN toDev /\ toDev'[i] = toDev[i]
        \/ toDev'[i].id \in {UBX_ID_MEM_UNLOCK, UBX_ID_REC_STATUS}
  BY <1>1 DEF Aired
<1>3. Enables' /\ Lock' /\ OneErase'
  BY <1>1, <1>2 DEF RecorderInv, Enables, Lock, CommandMeetsUnlockedDevice, OneErase
<1>4. Commanded => Commanded'
  BY <1>1, <1>2 DEF Commanded, IsErase
<1>. QED
  BY <1>1, <1>3, <1>4 DEF RecorderInv, FirstErase, AtWork, Reported

(* Cancelling an erase: from then on only the lock is claimed.              *)
LEMMA CancelKeeps ==
  ASSUME RecorderInv, SessionTypeOK', AppCancel, AppStep
  PROVE  RecorderInv'
<1>1. /\ UNCHANGED <<fifo, dev, pendingCmd>>
      /\ isErasing' = FALSE
      /\ cancels' = cancels + 1 /\ cancels \in Nat
      /\ Transmit(tx')
      /\ tx' = <<Packet(UBX_ID_ERASE, 1, 0)>> \/ tx' = <<>>
  BY DEF AppCancel, AppStep, CancelErase, devVars, RecorderInv, SessionTypeOK
<1>2. Packet(UBX_ID_ERASE, 1, 0) \in UbxPacket
  BY PacketType
<1>3. Aired(Packet(UBX_ID_ERASE, 1, 0))
  BY <1>1, <1>2, LinkTyped, TransmitAirs DEF RecorderInv
<1>4. \A i \in DOMAIN toDev' : \/ i \in DOMAIN toDev /\ toDev'[i] = toDev[i]
                               \/ IsErase(toDev'[i]) /\ toDev'[i].len = 1
  BY <1>3 DEF Aired, Packet, IsErase
<1>5. Enables' /\ Lock' /\ OneErase'
  BY <1>1, <1>4 DEF RecorderInv, Enables, Lock, CommandMeetsUnlockedDevice, OneErase, IsErase
<1>. QED
  BY <1>1, <1>5 DEF RecorderInv, FirstErase

(* The loss of the link locks the device and empties the FIFO and the air.  *)
LEMMA DropKeeps ==
  ASSUME RecorderInv, SessionTypeOK', Drop
  PROVE  RecorderInv'
<1>1. fifo' = <<>> /\ toDev' = <<>> /\ DOMAIN fifo' = {} /\ DOMAIN toDev' = {}
  BY DEF Drop, LinkDown, ClearFifo
<1>2. /\ dev'.erasing => dev.erasing
      /\ dev'.progress = dev.progress
      /\ UNCHANGED <<pendingCmd, isErasing, eraseProgress, cancels>>
  BY DEF Drop, Silent, erase, appVars, RecorderInv, SessionTypeOK
<1>. QED
  BY <1>1, <1>2 DEF RecorderInv, Enables, Lock, CommandMeetsUnlockedDevice, OneErase, FirstErase,
                    Commanded, AtWork, Reported


------------------------------------------------------------------------------
(* The device's steps.                                                      *)

\* The device read a command or did not, and sent pkt or nothing.
ReadsAtMost == toDev' = toDev \/ \E id : Read(id)
SendsAtMost(pkt) == fifo' = fifo \/ \E k : Arrived(pkt, k)

(* What is on the air only becomes less.                                    *)
LEMMA FewerCommands ==
  ASSUME ReadsAtMost
  PROVE  /\ Enables => Enables'
         /\ CommandMeetsUnlockedDevice /\ (dev.unlocked => dev'.unlocked)
              => CommandMeetsUnlockedDevice'
         /\ \A i \in DOMAIN toDev' :
              \E j \in DOMAIN toDev : toDev'[i] = toDev[j] /\ (toDev' = toDev => j = i)
         /\ \A i, j \in DOMAIN toDev' :
              (\A m, n \in DOMAIN toDev : IsErase(toDev[m]) /\ IsErase(toDev[n]) => m = n)
              /\ IsErase(toDev'[i]) /\ IsErase(toDev'[j]) => i = j
<1>1. CASE toDev' = toDev
  BY <1>1 DEF Enables, CommandMeetsUnlockedDevice
<1>2. CASE toDev' # toDev /\ \E id : Read(id)
  <2>1. \A i \in DOMAIN toDev' : i \in Nat /\ i + 1 \in DOMAIN toDev /\ toDev'[i] = toDev[i + 1]
    BY <1>2 DEF Read
  <2>2. \A i, j \in DOMAIN toDev' :
          (\A m, n \in DOMAIN toDev : IsErase(toDev[m]) /\ IsErase(toDev[n]) => m = n)
          /\ IsErase(toDev'[i]) /\ IsErase(toDev'[j]) => i = j
    <3>. SUFFICES ASSUME NEW i \in DOMAIN toDev', NEW j \in DOMAIN toDev',
                         \A m, n \in DOMAIN toDev : IsErase(toDev[m]) /\ IsErase(toDev[n]) => m = n,
                         IsErase(toDev'[i]), IsErase(toDev'[j])
                  PROVE  i = j
      OBVIOUS
    <3>1. i + 1 = j + 1 /\ i \in Nat /\ j \in Nat
      BY <2>1
    <3>. QED
      BY <3>1
  <2>. QED
    BY <1>2, <2>1, <2>2 DEF Enables, CommandMeetsUnlockedDevice
<1>. QED
  BY <1>1, <1>2 DEF ReadsAtMost

(* A packet that arrives is the last one; the others were there.            *)
LEMMA ArrivedKeeps ==
  ASSUME NEW pkt, SendsAtMost(pkt)
  PROVE  /\ \A i \in DOMAIN fifo' : (\E j \in DOMAIN fifo : fifo'[i] = fifo[j]) \/ fifo'[i] = pkt
         /\ Reported /\ ~IsEraseReport(pkt) =>
              \A i, j \in DOMAIN fifo' : IsErased(fifo'[i]) /\ IsEraseReport(fifo'[j]) => j <= i
<1>1. CASE fifo' = fifo
  BY <1>1 DEF Reported
<1>2. CASE fifo' # fifo /\ \E k : Arrived(pkt, k)
  <2>1. PICK k : Arrived(pkt, k)
    BY <1>2
  <2>2. \A i \in DOMAIN fifo' : \/ i \in Nat /\ k \in Nat /\ i + k \in DOMAIN fifo /\ fifo'[i] = fifo[i + k]
                                \/ fifo'[i] = pkt
    <3>. SUFFICES ASSUME NEW i \in DOMAIN fifo'
                  PROVE  \/ i \in Nat /\ k \in Nat /\ i + k \in DOMAIN fifo /\ fifo'[i] = fifo[i + k]
                         \/ fifo'[i] = pkt
      OBVIOUS
    <3>1. CASE i < Len(fifo')
      BY <2>1, <3>1 DEF Arrived
    <3>2. CASE i = Len(fifo')
      BY <2>1, <3>2 DEF Arrived
    <3>. QED
      BY <2>1, <3>1, <3>2 DEF Arrived
  <2>3. ASSUME Reported, ~IsEraseReport(pkt), NEW i \in DOMAIN fifo', NEW j \in DOMAIN fifo',
               IsErased(fifo'[i]), IsEraseReport(fifo'[j])
        PROVE  j <= i
    <3>1. /\ i \in Nat /\ j \in Nat /\ k \in Nat
          /\ i + k \in DOMAIN fifo /\ IsErased(fifo[i + k])
          /\ j + k \in DOMAIN fifo /\ IsEraseReport(fifo[j + k])
      BY <2>2, <2>3 DEF IsEraseReport
    <3>2. j + k <= i + k
      BY <2>3, <3>1 DEF Reported
    <3>. QED
      BY <3>1, <3>2
  <2>. QED
    BY <2>2, <2>3
<1>. QED
  BY <1>1, <1>2 DEF SendsAtMost

(* The lock holds when an unlock ACK is sent by an unlocked device only.    *)
LEMMA DeviceLock ==
  ASSUME RecorderInv, ReadsAtMost, NEW pkt, SendsAtMost(pkt),
         dev.unlocked => dev'.unlocked, IsUnlockAck(pkt) => dev'.unlocked,
         UNCHANGED <<pendingCmd, isErasing>>
  PROVE  Enables' /\ Lock' /\ OneErase'
<1>1. \A i \in DOMAIN fifo' : IsUnlockAck(fifo'[i]) => dev'.unlocked
  BY ArrivedKeeps DEF RecorderInv, Lock
<1>. QED
  BY <1>1, FewerCommands DEF RecorderInv, Lock, OneErase

(* A step of the device that has nothing to do with an erase.               *)
LEMMA PlainKeeps ==
  ASSUME RecorderInv, ReadsAtMost, NEW pkt, SendsAtMost(pkt), ~IsEraseReport(pkt),
         dev'.erasing = dev.erasing, dev'.progress = dev.progress,
         UNCHANGED <<isErasing, eraseProgress, cancels>>
  PROVE  FirstErase'
<1>. SUFFICES ASSUME cancels = 0
              PROVE  Commanded' /\ AtWork' /\ Reported' /\ eraseProgress' <= dev'.progress
  BY DEF FirstErase
<1>1. Commanded /\ AtWork /\ Reported /\ eraseProgress <= dev.progress
  BY DEF RecorderInv, FirstErase
<1>2. \A i \in DOMAIN fifo' : IsEraseReport(fifo'[i]) => \E j \in DOMAIN fifo : fifo'[i] = fifo[j]
  BY ArrivedKeeps
<1>3. Commanded'
  <2>. SUFFICES ASSUME NEW i \in DOMAIN toDev', IsErase(toDev'[i])
                PROVE  /\ toDev'[i].len = 0
                       /\ isErasing /\ eraseProgress = 0 /\ ~dev.erasing
                       /\ \A j \in DOMAIN toDev' : IsErase(toDev'[j]) => j = i
                       /\ \A j \in DOMAIN fifo' : ~IsEraseReport(fifo'[j])
    BY DEF Commanded
  <2>1. PICK m \in DOMAIN toDev : toDev'[i] = toDev[m]
    BY FewerCommands
  <2>2. \A j, n \in DOMAIN toDev : IsErase(toDev[j]) /\ IsErase(toDev[n]) => j = n
    BY <1>1 DEF Commanded
  <2>3. \A j \in DOMAIN toDev' : IsErase(toDev'[j]) => j = i
    BY <2>2, FewerCommands
  <2>. QED
    BY <1>1, <1>2, <2>1, <2>3 DEF Commanded
<1>4. AtWork'
  BY <1>1, <1>2 DEF AtWork, IsEraseReport
<1>5. Reported'
  BY <1>1, <1>2, ArrivedKeeps DEF Reported, IsEraseReport
<1>. QED
  BY <1>1, <1>3, <1>4, <1>5

(* The device begins the erase it was commanded.                            *)
LEMMA EraseStartKeeps ==
  ASSUME RecorderInv, SessionTypeOK', Device, DevEraseStart
  PROVE  FirstErase'
<1>. SUFFICES ASSUME cancels = 0
              PROVE  Commanded' /\ AtWork' /\ Reported' /\ eraseProgress' <= dev'.progress
  BY DEF FirstErase, Device, appVars
<1>1. Commanded /\ UNCHANGED <<fifo, isErasing, eraseProgress>>
  BY DEF RecorderInv, FirstErase, DevEraseStart, Device, Silent, erase
<1>2. dev'.erasing = TRUE /\ dev'.progress = 0
  BY DEF DevEraseStart, RecorderInv, SessionTypeOK
<1>3. Read(UBX_ID_ERASE)
  BY ReadType DEF DevEraseStart, RecorderInv
<1>4. 1 \in DOMAIN toDev /\ IsErase(toDev[1])
  BY <1>3 DEF Read, IsErase
<1>5. isErasing /\ eraseProgress = 0 /\ \A j \in DOMAIN fifo : ~IsEraseReport(fifo[j])
  BY <1>1, <1>4 DEF Commanded
<1>6. \A i \in DOMAIN toDev' : ~IsErase(toDev'[i])
  <2>. SUFFICES ASSUME NEW i \in DOMAIN toDev', IsErase(toDev'[i]) PROVE FALSE
    OBVIOUS
  <2>1. i + 1 \in DOMAIN toDev /\ i + 1 > 1 /\ IsErase(toDev[i + 1])
    BY <1>3 DEF Read
  <2>2. i + 1 = 1
    BY <1>1, <1>4, <2>1 DEF Commanded
  <2>. QED
    BY <2>1, <2>2
<1>. QED
  BY <1>1, <1>2, <1>5, <1>6 DEF Commanded, AtWork, Reported, IsEraseReport

(* The device sends a report of the erase it is at: progress, or its end.   *)
LEMMA ReportKeeps ==
  ASSUME RecorderInv, SessionTypeOK', Device, DevProgress \/ DevErased
  PROVE  FirstErase'
<1>. SUFFICES ASSUME cancels = 0
              PROVE  Commanded' /\ AtWork' /\ Reported' /\ eraseProgress' <= dev'.progress
  BY DEF FirstErase, Device, appVars
<1>1. /\ Commanded /\ AtWork /\ Reported /\ eraseProgress <= dev.progress
      /\ UNCHANGED <<toDev, isErasing, eraseProgress>> /\ dev.erasing
  BY DEF RecorderInv, FirstErase, DevProgress, DevErased, Device, Silent, erase
<1>2. PICK pkt \in UbxPacket :
        /\ Notify(pkt)
        /\ \/ IsErase(pkt) /\ ~IsErased(pkt) /\ pkt.arg = 50 /\ dev'.progress = 50 /\ dev.progress < 50
           \/ IsErased(pkt) /\ ~IsErase(pkt) /\ dev'.progress = 100 /\ dev.progress = 50 /\ ~dev'.erasing
  <2>1. dev \in DeviceType
    BY DEF RecorderInv, SessionTypeOK, DeviceType
  <2>2. CASE DevProgress
    <3>1. dev' = [dev EXCEPT !.progress = 50] /\ dev.progress < 50 /\ Notify(Packet(UBX_ID_ERASE, 1, 50))
      BY <2>2 DEF DevProgress
    <3>2. dev'.progress = 50
      BY <2>1, <3>1 DEF DeviceType
    <3>3. Packet(UBX_ID_ERASE, 1, 50) \in UbxPacket
      BY DevicePackets
    <3>4. /\ IsErase(Packet(UBX_ID_ERASE, 1, 50)) /\ ~IsErased(Packet(UBX_ID_ERASE, 1, 50))
          /\ Packet(UBX_ID_ERASE, 1, 50).arg = 50
      BY DEF Packet, IsErase, IsErased
    <3>. QED
      BY <3>1, <3>2, <3>3, <3>4
  <2>3. CASE DevErased
    <3>1. /\ dev' = [dev EXCEPT !.erasing = FALSE, !.progress = 100] /\ dev.progress = 50
          /\ Notify(Packet(UBX_ID_ACK, 2, UBX_ID_ERASE))
      BY <2>3 DEF DevErased, Answer
    <3>2. dev'.progress = 100 /\ ~dev'.erasing
      BY <2>1, <3>1 DEF DeviceType
    <3>3. Packet(UBX_ID_ACK, 2, UBX_ID_ERASE) \in UbxPacket
      BY DevicePackets
    <3>4. IsErased(Packet(UBX_ID_ACK, 2, UBX_ID_ERASE)) /\ ~IsErase(Packet(UBX_ID_ACK, 2, UBX_ID_ERASE))
      BY DEF Packet, IsErase, IsErased
    <3>. QED
      BY <3>1, <3>2, <3>3, <3>4
  <2>. QED
    BY <2>2, <2>3
<1>3. PICK k : Arrived(pkt, k)
  BY <1>2, NotifyArrives DEF RecorderInv
<1>4. SendsAtMost(pkt)
  BY <1>3 DEF SendsAtMost
<1>5. isErasing /\ \A i \in DOMAIN fifo : ~IsErased(fifo[i])
  BY <1>1 DEF AtWork
<1>6. \A i \in DOMAIN toDev : ~IsErase(toDev[i])
  BY <1>1 DEF Commanded
<1>7. dev.progress \in Nat /\ eraseProgress \in Nat /\ fifo \in Seq(UbxPacket) /\ fifo' \in Seq(UbxPacket)
  BY DEF RecorderInv, SessionTypeOK, TypeOK, LinkTypeOK
<1>8. \A i \in DOMAIN fifo' : IsErased(fifo'[i]) => i = Len(fifo') /\ IsErased(pkt)
  BY <1>3, <1>5 DEF Arrived
<1>9. \A i \in DOMAIN fifo' : IsErase(fifo'[i]) => fifo'[i].arg <= dev'.progress
  <2>. SUFFICES ASSUME NEW i \in DOMAIN fifo', IsErase(fifo'[i]) PROVE fifo'[i].arg <= dev'.progress
    OBVIOUS
  <2>1. CASE fifo'[i] = pkt
    BY <1>2, <2>1
  <2>2. CASE \E j \in DOMAIN fifo : fifo'[i] = fifo[j]
    <3>1. PICK j \in DOMAIN fifo : fifo'[i] = fifo[j]
      BY <2>2
    <3>2. fifo[j] \in UbxPacket
      BY <1>7
    <3>3. fifo[j].arg \in Nat
      BY <3>2 DEF UbxPacket
    <3>4. fifo[j].arg <= dev.progress
      BY <1>1, <3>1 DEF Reported
    <3>. QED
      BY <1>2, <1>7, <3>1, <3>3, <3>4
  <2>. QED
    BY <1>4, <2>1, <2>2, ArrivedKeeps
<1>10. Reported'
  BY <1>1, <1>2, <1>3, <1>5, <1>8, <1>9 DEF Reported, Arrived
<1>. QED
  BY <1>1, <1>2, <1>5, <1>6, <1>7, <1>8, <1>10 DEF Commanded, AtWork

(* A command to cancel an erase is read only if one was sent.               *)
LEMMA EraseCancelKeeps ==
  ASSUME RecorderInv, Device, DevEraseCancel
  PROVE  FirstErase'
<1>. SUFFICES ASSUME cancels = 0 PROVE FALSE
  BY DEF FirstErase, Device, appVars
<1>1. Read(UBX_ID_ERASE) /\ toDev[1].len = 1
  BY ReadType DEF DevEraseCancel, RecorderInv, Read
<1>2. 1 \in DOMAIN toDev /\ IsErase(toDev[1])
  BY <1>1 DEF Read, IsErase
<1>. QED
  BY <1>1, <1>2 DEF RecorderInv, FirstErase, Commanded

(* Every step of the device keeps the invariant.                            *)
LEMMA DeviceStep ==
  ASSUME RecorderInv, SessionTypeOK', Device
  PROVE  RecorderInv'
<1>1. UNCHANGED <<isErasing, eraseProgress, pendingCmd, cancels>> /\ SessionTypeOK
  BY DEF Device, Silent, erase, appVars, RecorderInv
<1>2. \A id : Reads(id) => Read(id)
  BY <1>1, ReadType
<1>3. \A pkt \in UbxPacket : Notify(pkt) => SendsAtMost(pkt)
  BY <1>1, NotifyArrives DEF SendsAtMost
<1>4. \A id \in {UBX_ID_ACK, UBX_ID_NACK}, cmd \in Nat :
        /\ Answer(id, cmd) => SendsAtMost(Packet(id, 2, cmd))
        /\ IsUnlockAck(Packet(id, 2, cmd)) <=> id = UBX_ID_ACK /\ cmd = UBX_ID_MEM_UNLOCK
        /\ IsEraseReport(Packet(id, 2, cmd)) <=> id = UBX_ID_ACK /\ cmd = UBX_ID_ERASE
  <2>1. \A id \in {UBX_ID_ACK, UBX_ID_NACK}, cmd \in Nat : Answer(id, cmd) => SendsAtMost(Packet(id, 2, cmd))
    BY <1>3, DevicePackets DEF Answer
  <2>. QED
    BY <2>1 DEF Packet, IsUnlockAck, IsEraseReport, IsErase, IsErased
<1>5. dev \in DeviceType
  BY <1>1 DEF SessionTypeOK, DeviceType
<1>6. ASSUME NEW pkt, SendsAtMost(pkt), ReadsAtMost, ~IsEraseReport(pkt),
             IsUnlockAck(pkt) => dev'.unlocked, dev.unlocked => dev'.unlocked,
             dev'.erasing = dev.erasing, dev'.progress = dev.progress
      PROVE  RecorderInv'
  BY <1>1, <1>6, PlainKeeps, DeviceLock DEF RecorderInv
<1>7. ASSUME NEW pkt, SendsAtMost(pkt), ReadsAtMost, ~IsUnlockAck(pkt),
             dev.unlocked => dev'.unlocked, FirstErase'
      PROVE  RecorderInv'
  BY <1>1, <1>7, DeviceLock DEF RecorderInv
<1>8. CASE DevUnlock
  <2>1. ReadsAtMost
    BY <1>2, <1>8 DEF DevUnlock, ReadsAtMost
  <2>2. PICK id \in {UBX_ID_ACK, UBX_ID_NACK} :
          /\ Answer(id, UBX_ID_MEM_UNLOCK)
          /\ dev' = IF id = UBX_ID_ACK THEN [dev EXCEPT !.unlocked = TRUE] ELSE dev
    BY <1>8 DEF DevUnlock
  <2>3. /\ id = UBX_ID_ACK => dev'.unlocked
        /\ dev.unlocked => dev'.unlocked
        /\ dev'.erasing = dev.erasing /\ dev'.progress = dev.progress
    BY <1>5, <2>2 DEF DeviceType
  <2>. QED
    BY <1>4, <1>6, <2>1, <2>2, <2>3
<1>9. CASE DevRefuses
  <2>1. PICK id \in {UBX_ID_REC_CONFIG, UBX_ID_ERASE} : Reads(id) /\ Answer(UBX_ID_NACK, id)
    BY <1>9 DEF DevRefuses
  <2>2. ReadsAtMost /\ dev' = dev
    BY <1>2, <1>9, <2>1 DEF DevRefuses, ReadsAtMost
  <2>. QED
    BY <1>4, <1>6, <2>1, <2>2
<1>10. CASE DevConfigure
  <2>1. ReadsAtMost /\ Answer(UBX_ID_ACK, UBX_ID_REC_CONFIG)
    BY <1>2, <1>10 DEF DevConfigure, ReadsAtMost
  <2>2. dev'.unlocked = dev.unlocked /\ dev'.erasing = dev.erasing /\ dev'.progress = dev.progress
    BY <1>5, <1>10 DEF DevConfigure, DeviceType
  <2>. QED
    BY <1>4, <1>6, <2>1, <2>2
<1>11. CASE DevEraseStart
  <2>1. ReadsAtMost /\ SendsAtMost(Packet(UBX_ID_NACK, 2, 0)) /\ ~IsUnlockAck(Packet(UBX_ID_NACK, 2, 0))
    BY <1>2, <1>4, <1>11 DEF DevEraseStart, ReadsAtMost, SendsAtMost
  <2>2. dev'.unlocked = dev.unlocked
    BY <1>5, <1>11 DEF DevEraseStart, DeviceType
  <2>. QED
    BY <1>7, <1>11, <2>1, <2>2, EraseStartKeeps
<1>12. CASE DevEraseCancel
  <2>1. /\ ReadsAtMost
        /\ SendsAtMost(Packet(UBX_ID_ACK, 2, UBX_ID_ERASE))
        /\ ~IsUnlockAck(Packet(UBX_ID_ACK, 2, UBX_ID_ERASE))
    BY <1>2, <1>4, <1>12 DEF DevEraseCancel, ReadsAtMost, SendsAtMost
  <2>2. dev'.unlocked = dev.unlocked
    BY <1>5, <1>12 DEF DevEraseCancel, DeviceType
  <2>. QED
    BY <1>7, <1>12, <2>1, <2>2, EraseCancelKeeps
<1>13. CASE DevProgress
  <2>1. /\ ReadsAtMost
        /\ SendsAtMost(Packet(UBX_ID_ERASE, 1, 50)) /\ ~IsUnlockAck(Packet(UBX_ID_ERASE, 1, 50))
    BY <1>3, <1>13, DevicePackets DEF DevProgress, ReadsAtMost, Packet, IsUnlockAck
  <2>2. dev'.unlocked = dev.unlocked
    BY <1>5, <1>13 DEF DevProgress, DeviceType
  <2>. QED
    BY <1>7, <1>13, <2>1, <2>2, ReportKeeps
<1>14. CASE DevErased
  <2>1. /\ ReadsAtMost
        /\ SendsAtMost(Packet(UBX_ID_ACK, 2, UBX_ID_ERASE))
        /\ ~IsUnlockAck(Packet(UBX_ID_ACK, 2, UBX_ID_ERASE))
    BY <1>4, <1>14 DEF DevErased, ReadsAtMost
  <2>2. dev'.unlocked = dev.unlocked
    BY <1>5, <1>14 DEF DevErased, DeviceType
  <2>. QED
    BY <1>7, <1>14, <2>1, <2>2, ReportKeeps
<1>15. CASE DevStatus
  <2>. DEFINE pkt == Packet(UBX_ID_REC_STATUS, 12, dev.recording)
  <2>1. ReadsAtMost /\ Notify(pkt) /\ dev' = dev
    BY <1>2, <1>15 DEF DevStatus, ReadsAtMost
  <2>2. dev.recording \in Nat
    BY <1>5 DEF DeviceType
  <2>3. pkt \in UbxPacket
    BY <2>2, DevicePackets
  <2>4. ~IsEraseReport(pkt) /\ ~IsUnlockAck(pkt)
    BY DEF Packet, IsUnlockAck, IsEraseReport, IsErase, IsErased
  <2>. HIDE DEF pkt
  <2>. QED
    BY <1>3, <1>6, <2>1, <2>3, <2>4
<1>16. CASE DevReport
  <2>. DEFINE pkt == [Packet(UBX_ID_STATE_CHANGE, 12, dev.recording) EXCEPT
                        !.aux = IF EchoesRate THEN dev.rate ELSE 0]
  <2>1. ReadsAtMost /\ Notify(pkt) /\ dev' = [dev EXCEPT !.owes = FALSE]
    BY <1>16 DEF DevReport, ReadsAtMost
  <2>2. dev.recording \in Nat /\ (IF EchoesRate THEN dev.rate ELSE 0) \in Nat
    BY <1>5 DEF DeviceType
  <2>3. pkt \in UbxPacket
    BY <2>2, DevicePackets
  <2>4. ~IsEraseReport(pkt) /\ ~IsUnlockAck(pkt)
    BY DEF Packet, IsUnlockAck, IsEraseReport, IsErase, IsErased
  <2>5. dev'.unlocked = dev.unlocked /\ dev'.erasing = dev.erasing /\ dev'.progress = dev.progress
    BY <1>5, <2>1 DEF DeviceType
  <2>. HIDE DEF pkt
  <2>. QED
    BY <1>3, <1>6, <2>1, <2>3, <2>4, <2>5
<1>17. CASE DevButton
  <2>1. /\ ReadsAtMost /\ SendsAtMost(Packet(UBX_ID_NACK, 2, 0))
        /\ ~IsUnlockAck(Packet(UBX_ID_NACK, 2, 0)) /\ ~IsEraseReport(Packet(UBX_ID_NACK, 2, 0))
    BY <1>4, <1>17 DEF DevButton, ReadsAtMost, SendsAtMost
  <2>2. dev'.unlocked = dev.unlocked /\ dev'.erasing = dev.erasing /\ dev'.progress = dev.progress
    BY <1>5, <1>17 DEF DevButton, DeviceType
  <2>. QED
    BY <1>6, <2>1, <2>2
<1>. QED
  BY <1>8, <1>9, <1>10, <1>11, <1>12, <1>13, <1>14, <1>15, <1>16, <1>17 DEF Device

------------------------------------------------------------------------------
(* The theorems.                                                            *)

(* A session begins with nothing under way.                                 *)
LEMMA RecorderInvInit == SessionInit => RecorderInv
<1>. SUFFICES ASSUME SessionInit PROVE RecorderInv
  OBVIOUS
<1>1. TypeOK /\ eraseProgress = 0 /\ pendingCmd = "NONE"
  BY InitTypeOK DEF SessionInit, Init
<1>2. fifo = <<>> /\ toDev = <<>> /\ DOMAIN fifo = {} /\ DOMAIN toDev = {}
  BY DEF SessionInit, LinkInit
<1>3. dev \in DeviceType /\ ~dev.erasing /\ dev.progress = 0
  BY RecorderAssumptions DEF SessionInit, DeviceType
<1>4. polled \in BOOLEAN /\ connected \in BOOLEAN /\ drops = 0
  BY DEF SessionInit, LinkInit
<1>5. LinkTypeOK
  BY <1>2, <1>4 DEF LinkTypeOK
<1>6. SessionTypeOK
  BY <1>1, <1>3, <1>4, <1>5 DEF SessionInit, SessionTypeOK, DeviceType
<1>. QED
  BY <1>1, <1>2, <1>3, <1>6 DEF RecorderInv, Enables, Lock, CommandMeetsUnlockedDevice, OneErase,
                              FirstErase, Commanded, AtWork, Reported

(* Every step of a session keeps its invariant.                             *)
LEMMA RecorderInvStep == RecorderInv /\ [SessionNext]_vars => RecorderInv'
<1>. SUFFICES ASSUME RecorderInv, [SessionNext]_vars PROVE RecorderInv'
  OBVIOUS
<1>1. SessionTypeOK'
  BY SessionTypeStep DEF RecorderInv
<1>2. Dispatch \/ LoopStep \/ (AppCancel /\ AppStep) \/ Drop \/ Device
  BY DEF SessionNext, App, LoopStep
<1>. QED
  BY <1>1, <1>2, DispatchStep, LoopKeeps, CancelKeeps, DropKeeps, DeviceStep

(* The invariant holds of every recording session, whatever the device, the *)
(* link and the application do, and for any number of calls and losses.     *)
THEOREM RecorderInvariant == SessionSpec => []RecorderInv
BY RecorderInvInit, RecorderInvStep, PTL DEF SessionSpec

(* Every variable of the session stays in its type; that the device's       *)
(* recording state does rests on the enable byte of the commands sent.      *)
THEOREM SessionTypeCorrect == SessionSpec => []SessionTypeOK
<1>1. RecorderInv => SessionTypeOK
  BY DEF RecorderInv
<1>. QED
  BY <1>1, RecorderInvariant, PTL

(* No start, stop or erase reaches a locked device.                         *)
THEOREM CommandsMeetUnlockedDevice == SessionSpec => []CommandMeetsUnlockedDevice
<1>1. RecorderInv => CommandMeetsUnlockedDevice
  BY DEF RecorderInv, Lock
<1>. QED
  BY <1>1, RecorderInvariant, PTL

(* While no erase was cancelled, isErasing() is true whenever the device    *)
(* erases.                                                                  *)
THEOREM ErasesAreKnown == SessionSpec => []EraseInProgressIsKnown
<1>1. RecorderInv => EraseInProgressIsKnown
  BY DEF RecorderInv, FirstErase, AtWork, EraseInProgressIsKnown
<1>. QED
  BY <1>1, RecorderInvariant, PTL

(* While no erase was cancelled, eraseProgress() is never ahead of the      *)
(* device's progress.                                                       *)
THEOREM ProgressIsNeverAhead == SessionSpec => []ProgressNeverAhead
<1>1. RecorderInv => ProgressNeverAhead
  BY DEF RecorderInv, FirstErase, ProgressNeverAhead
<1>. QED
  BY <1>1, RecorderInvariant, PTL
===============================================================================
