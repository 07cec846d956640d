--------------------------- MODULE DownloaderSilence ---------------------------
(***************************************************************************)
(* RaceBoxDownloader with a history variable: how long the driver has      *)
(* heard nothing, counted in clock steps and never wrapping.  It says what *)
(* the watchdog's wrapped subtraction is supposed to measure.              *)
(***************************************************************************)
EXTENDS RaceBoxDownloader

CONSTANT SilenceBound   \* bound on silence, so that TLC's state space is finite

ASSUME SilenceBoundAssumption == SilenceBound \in Nat

VARIABLE silence

silenceVars == <<dlVars, silence>>

SInit == Init /\ silence = millis

\* A command that went out, or a packet of the RaceBox class, ends a silence.
Heard ==
  /\ \/ Begin(TRUE)
     \/ \E pkt \in Deliverable, ok \in BOOLEAN :
          /\ pkt.cls = UBX_CLASS_RACEBOX
          /\ pkt.id = UBX_ID_HISTORY => recordCount < CountBound
          /\ OnPacket(pkt, ok)
  /\ silence' = 0

NotHeard ==
  /\ \/ Begin(FALSE)
     \/ \E isSet \in BOOLEAN : SetSecurityCode(isSet)
     \/ \E ok \in BOOLEAN : EraseMemory(ok)
     \/ Update
     \/ \E pkt \in Deliverable : pkt.cls # UBX_CLASS_RACEBOX /\ OnPacket(pkt, FALSE)
  /\ UNCHANGED silence

TimePasses ==
  /\ silence < SilenceBound
  /\ Tick
  /\ silence' = silence + 1

SNext == Heard \/ NotHeard \/ TimePasses

SSpec == SInit /\ [][SNext]_silenceVars

(* The watchdog measures silence across the wrap of millis(): update() ends *)
(* a download only after more than TIMEOUT_MS of silence, and when called   *)
(* between TIMEOUT_MS and a full turn of the counter it does end it.        *)
WatchdogMeasuresSilence ==
  [][(Update /\ Watched)
       => ((state' # state => silence > TIMEOUT_MS)
           /\ (silence \in (TIMEOUT_MS + 1) .. (ClockSize - 1) => state' \in Finished))]_silenceVars
==============================================================================
