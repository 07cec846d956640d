---------------------------- MODULE RecorderRequests ----------------------------
(***************************************************************************)
(* RaceBoxRecorder with the history of its requests: how many starts,      *)
(* stops and erases the application asked for, which came last, and how    *)
(* many commands the driver sent for them.                                 *)
(***************************************************************************)
EXTENDS RaceBoxRecorder

CONSTANT MaxRequests   \* bound: calls of startRecording, stopRecording, eraseMemory

ASSUME RequestsAssumption == MaxRequests \in Nat

VARIABLES
  requests,  \* requests accepted
  latest,    \* the latest of them
  sent       \* commands sent for requests

history == <<requests, latest, sent>>
requestVars == <<recVars, history>>

HInit ==
  /\ Init
  /\ requests = 0 /\ latest = "NONE" /\ sent = 0

Asks(cmd) == requests' = requests + 1 /\ latest' = cmd /\ UNCHANGED sent

AskStart(ok) ==
  /\ StartRecording(ok) \/ \E rate \in Rates : StartRecordingWith(rate, ok)
  /\ Asks("START")

AskStop(ok) == StopRecording(ok) /\ Asks("STOP")

AskErase(ok) ==
  /\ EraseMemory(ok)
  /\ IF isErasing THEN UNCHANGED history ELSE Asks("ERASE")

Receive(pkt, ok) ==
  /\ OnPacket(pkt, ok)
  /\ sent' = sent + Len(tx')
  /\ UNCHANGED <<requests, latest>>

Elsewhere ==
  /\ \/ \E ok \in BOOLEAN : QueryStatus(ok) \/ CancelErase(ok)
     \/ \E rate \in Rates : SetConfig(rate)
     \/ \E code \in Codes : SetSecurityCode(code)
     \/ SetEraseProgressCallback
     \/ Update
     \/ Tick
  /\ UNCHANGED history

HNext ==
  \/ \E ok \in BOOLEAN : requests < MaxRequests /\ (AskStart(ok) \/ AskStop(ok) \/ AskErase(ok))
  \/ \E pkt \in Deliverable, ok \in BOOLEAN : Receive(pkt, ok)
  \/ Elsewhere

HSpec == HInit /\ [][HNext]_requestVars

------------------------------------------------------------------------------
(* No request is served twice: duplicated, late or foreign unlock ACKs,     *)
(* retries and timeouts never make the driver send more commands than the   *)
(* application asked for.                                                   *)
OncePerRequest == sent + (IF pendingCmd = "NONE" THEN 0 ELSE 1) <= requests

(* A superseded request is never sent: whatever unlock round trips are      *)
(* under way, the command an unlock ACK releases is the latest one asked    *)
(* for, so that a stop is not followed by an older start.                   *)
Kind(cmd) ==
  IF cmd.id = UBX_ID_ERASE THEN "ERASE" ELSE IF cmd.arg = 1 THEN "START" ELSE "STOP"

OnlyLatestRequestIsSent ==
  [][sent' > sent => Kind(tx'[1]) = latest]_requestVars
==============================================================================
