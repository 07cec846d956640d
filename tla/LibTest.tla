------------------------------- MODULE LibTest -------------------------------
(***************************************************************************)
(* The LibTest example: one RaceBoxBle with its one packet callback, the   *)
(* recorder and the downloader that take it from each other, the commands  *)
(* typed at the serial port, and the state machines of CONFIG TEST, CONFIG *)
(* VERIFY and RECBENCH that wait for the device's state changes.           *)
(*                                                                         *)
(* pc walks through loop(): "serial" (typed commands), "drain"             *)
(* (racebox.update()), "react" (the application's callbacks for the state  *)
(* change just dispatched) and, when the RECBENCH tick has something to    *)
(* do, "bench"; the poll of dl.update() or rec.update() ends the pass.     *)
(* Both drivers are the modules of their own; they share the clock and the *)
(* outputs tx and calls.                                                   *)
(*                                                                         *)
(* The device and the link move while pc = "drain": elsewhere the loop     *)
(* does not read the FIFO, and a command written while the link falls is   *)
(* one that could not be written or one that was lost.                     *)
(*                                                                         *)
(* captured1, captured2 and undisturbed only observe.                      *)
(***************************************************************************)
EXTENDS Link, Millis

CONSTANTS
  ACK_TIMEOUT_MS, TIMEOUT_MS,   \* the drivers' limits
  SECURITY_CODE,
  DefaultRate, TestRate, BenchRate,   \* HZ_25, HZ_10, HZ_25
  Durations,                    \* BENCH_SESSION_DURATIONS_MS
  BENCH_BETWEEN_MS,
  BENCH_STATUS_INTERVAL_MS,
  EchoesRate,                   \* whether the firmware reports the data rate
  MaxTyped                      \* bound: commands typed

ASSUME LibTestAssumptions ==
  /\ {SECURITY_CODE, DefaultRate, TestRate, BenchRate} \subseteq Nat
  /\ {ACK_TIMEOUT_MS, TIMEOUT_MS, BENCH_BETWEEN_MS} \subseteq Nat
  /\ BENCH_STATUS_INTERVAL_MS \in Nat \ {0}
  /\ Durations \in Seq(Nat) \ {<<>>}
  /\ EchoesRate \in BOOLEAN
  /\ MaxTyped \in Nat

VARIABLES
  recState, status, dataRate, lastAck, cmdSentMs, config, confirmedConfig,
  isErasing, eraseProgress, eraseCb, securityCode, pendingCmd,   \* the recorder
  state, expectedCount, recordCount, lastRxMs, startRxMs,
  hasSecurityCode,        \* the downloader
  millis, tx, calls,
  packetCb,               \* who registered RaceBoxBle's packet callback last
  pc,
  heard,                  \* the callbacks of the state change being dispatched
  downloadMode, downloadDone,   \* _downloadMode, _downloadDone
  phase,                  \* _cfgTestPhase
  captured1, captured2,   \* the rates of _cfgConfirmed1, _cfgConfirmed2, {} until this test sets them
  undisturbed,            \* no start but CONFIG TEST's own can be reported while it runs
  bench,                  \* _benchRecState
  session,                \* _benchRecSession
  benchStartMs, lastStatusMs,   \* _benchRecStartMs, _benchRecLastStatusMs
  dev,                    \* the device
  typed                   \* commands typed

Rec == INSTANCE RaceBoxRecorder
         WITH Rates <- {DefaultRate}, Codes <- {SECURITY_CODE}, DefaultCode <- 123456,
              Deliverable <- {}, HasStateChangeCallback <- TRUE,
              HasConfigConfirmedCallback <- TRUE
Dl == INSTANCE RaceBoxDownloader
        WITH HasRecordCallback <- TRUE, HasStateChangeCallback <- FALSE,
             Deliverable <- {}, CountBound <- 0

recOnly == <<recState, status, dataRate, lastAck, cmdSentMs, config, confirmedConfig,
             isErasing, eraseProgress, eraseCb, securityCode, pendingCmd>>
dlOnly == <<state, expectedCount, recordCount, lastRxMs, startRxMs, hasSecurityCode>>
mode == <<packetCb, downloadMode, downloadDone>>
captures == <<captured1, captured2>>
configTest == <<phase, captures, undisturbed>>
recBench == <<bench, session, benchStartMs, lastStatusMs>>
app == <<mode, configTest, recBench, typed>>
vars == <<recOnly, dlOnly, millis, tx, calls, linkVars, pc, heard, app, dev>>

Phase == {"IDLE", "CT_WAIT_START1", "CT_WAIT_STOP1", "CT_WAIT_START2", "CT_WAIT_STOP2",
          "CV_WAIT_START", "CV_WAIT_STOP"}
BenchState == {"IDLE", "STARTING", "RECORDING", "STOPPING", "BETWEEN"}

SystemTypeOK ==
  /\ recState \in Nat /\ cmdSentMs \in Time /\ pendingCmd \in Rec!Pending
  /\ isErasing \in BOOLEAN /\ eraseProgress \in Nat /\ config \in Nat /\ confirmedConfig \in Nat
  /\ state \in Dl!State /\ expectedCount \in Nat /\ recordCount \in Nat
  /\ {lastRxMs, startRxMs, millis, benchStartMs, lastStatusMs} \subseteq Time
  /\ LinkTypeOK
  /\ packetCb \in {"recorder", "downloader"}
  /\ pc \in {"setup", "serial", "drain", "react", "bench"}
  /\ {downloadMode, downloadDone} \subseteq BOOLEAN
  /\ heard \in Seq(Rec!Call)
  /\ phase \in Phase /\ captured1 \cup captured2 \subseteq Nat /\ undisturbed \in BOOLEAN /\ typed \in Nat
  /\ bench \in BenchState /\ session \in Nat
  /\ dev \in [unlocked : BOOLEAN, recording : {0, 1}, rate : Nat, owes : BOOLEAN,
              erasing : BOOLEAN, sending : BOOLEAN]

SystemInit ==
  /\ Rec!Init /\ Dl!Init /\ LinkInit
  /\ packetCb = "recorder" /\ downloadMode = FALSE /\ downloadDone = FALSE
  /\ pc = "setup" /\ heard = <<>>
  /\ phase = "IDLE" /\ captured1 = {} /\ captured2 = {} /\ undisturbed = FALSE
  /\ bench = "IDLE" /\ session = 0 /\ benchStartMs = 0 /\ lastStatusMs = 0
  /\ dev = [unlocked |-> FALSE, recording |-> 0, rate |-> DefaultRate, owes |-> FALSE,
            erasing |-> FALSE, sending |-> FALSE]
  /\ typed = 0

------------------------------------------------------------------------------
(* Steps and the drivers.                                                   *)

\* A step in which no driver runs.
Silent == Rec!Silent /\ Dl!Silent

\* What an application step that calls a driver leaves to the link and the device.
Elsewhere == Transmit(tx') /\ UNCHANGED <<connected, drops, dev>>

\* The recorder's entry points as the application calls them.
\* Mutant: a start without arguments takes the library's defaults, not the stored settings.
StartsAfresh  == \E ok \in Results : Rec!StartRecordingWith(DefaultRate, ok) /\ UNCHANGED dlOnly
Starts        == \E ok \in Results : Rec!StartRecording(ok) /\ UNCHANGED dlOnly
StartsAt(hz)  == \E ok \in Results : Rec!StartRecordingWith(hz, ok) /\ UNCHANGED dlOnly
Stops         == \E ok \in Results : Rec!StopRecording(ok) /\ UNCHANGED dlOnly
QueriesStatus == \E ok \in Results : Rec!QueryStatus(ok) /\ UNCHANGED dlOnly

\* setup(): racebox.begin() and rec.begin() are in the initial state.
Setup ==
  /\ pc = "setup"
  /\ \/ securityCode # SECURITY_CODE
        /\ Rec!SetSecurityCode(SECURITY_CODE) /\ UNCHANGED pc
     \/ securityCode = SECURITY_CODE /\ Rec!SetEraseProgressCallback /\ pc' = "serial"
  /\ UNCHANGED <<dlOnly, linkVars, heard, app, dev>>

------------------------------------------------------------------------------
(* dispatch(): the commands typed.                                          *)

\* rec.begin() takes the packet callback back.
activateRecorder ==
  /\ packetCb' = "recorder"
  /\ downloadMode' = FALSE
  /\ UNCHANGED downloadDone

\* What the recorder's commands begin with.
OnRecorder == connected /\ IF downloadMode THEN activateRecorder ELSE UNCHANGED mode

Status == OnRecorder /\ QueriesStatus /\ UNCHANGED <<configTest, recBench>>

RecStart ==
  /\ OnRecorder
  /\ StartsAt(DefaultRate) /\ undisturbed' = FALSE
  /\ UNCHANGED <<phase, captures, recBench>>

RecStop == OnRecorder /\ Stops /\ UNCHANGED <<configTest, recBench>>

Erase ==
  /\ OnRecorder
  /\ \E ok \in Results : Rec!EraseMemory(ok)
  /\ UNCHANGED <<dlOnly, configTest, recBench>>

EraseCancel ==
  /\ \E ok \in Results : Rec!CancelErase(ok)
  /\ UNCHANGED <<dlOnly, mode, configTest, recBench>>

RecBench ==
  /\ OnRecorder
  /\ bench = "IDLE"
  /\ bench' = "STARTING" /\ session' = 0
  /\ StartsAt(BenchRate) /\ undisturbed' = FALSE
  /\ UNCHANGED <<benchStartMs, lastStatusMs, phase, captures>>

RecBenchStop ==
  /\ bench # "IDLE"
  /\ bench' = "IDLE"
  /\ Stops
  /\ UNCHANGED <<session, benchStartMs, lastStatusMs, mode, configTest>>

Watch == downloadMode /\ activateRecorder /\ Silent /\ UNCHANGED <<configTest, recBench>>

\* An earlier start the device has not reported yet, or whose report was not read.
StartUnderWay ==
  \/ \E i \in DOMAIN toDev : toDev[i].id = UBX_ID_REC_CONFIG /\ toDev[i].arg = 1
  \/ dev.owes /\ dev.recording = 1
  \/ \E i \in DOMAIN fifo : fifo[i].id = UBX_ID_STATE_CHANGE /\ fifo[i].arg = 1

ConfigTest ==
  /\ OnRecorder
  /\ phase = "IDLE" /\ bench = "IDLE"
  /\ phase' = "CT_WAIT_START1"
  /\ captured1' = {} /\ captured2' = {} /\ undisturbed' = ~StartUnderWay
  /\ StartsAt(TestRate)
  /\ UNCHANGED recBench

ConfigVerify ==
  /\ OnRecorder
  /\ phase = "IDLE"
  /\ phase' = "CV_WAIT_START"
  /\ Starts
  /\ UNCHANGED <<captures, undisturbed, recBench>>

\* dl.begin() takes the packet callback; no security code was given to it.
Download ==
  /\ connected
  /\ \E ok \in Results : Dl!Begin(ok)
  /\ packetCb' = "downloader" /\ downloadMode' = TRUE /\ downloadDone' = FALSE
  /\ UNCHANGED <<recOnly, configTest, recBench>>

Command ==
  \/ Status \/ RecStart \/ RecStop \/ Erase \/ EraseCancel \/ RecBench \/ RecBenchStop
  \/ Watch \/ ConfigTest \/ ConfigVerify \/ Download

Typed ==
  /\ pc = "serial" /\ typed < MaxTyped
  /\ typed' = typed + 1
  /\ Command
  /\ Elsewhere
  /\ UNCHANGED <<fifo, pc, heard>>

NoMoreTyped == pc = "serial" /\ pc' = "drain" /\ Silent /\ UNCHANGED <<linkVars, heard, app, dev>>

------------------------------------------------------------------------------
(* racebox.update() and the callbacks it runs.                              *)

Reconnect == pc = "drain" /\ LinkUp /\ Silent /\ UNCHANGED <<pc, heard, app, dev>>

ChangesState == \E i \in DOMAIN calls' : calls'[i].fn = "stateChange"

\* _packetCb is the driver that registered it last.
Dispatch ==
  /\ pc = "drain" /\ fifo # <<>>
  /\ ExtractFrame
  /\ \E ok \in Results :
       \/ packetCb = "recorder" /\ Rec!OnPacket(Head(fifo), ok) /\ UNCHANGED dlOnly
       \/ packetCb = "downloader" /\ Dl!OnPacket(Head(fifo), ok) /\ UNCHANGED recOnly
  /\ IF packetCb = "recorder" /\ ChangesState
       THEN pc' = "react" /\ heard' = calls'
       ELSE UNCHANGED <<pc, heard>>
  /\ Elsewhere
  /\ UNCHANGED app

\* racebox.update() returns with the FIFO empty.
Drained == pc = "bench" \/ (pc = "drain" /\ fifo = <<>>)

\* The callbacks: the rate of the configuration confirmed, if one was, and the event.
Confirmed == {heard[i].data : i \in {j \in DOMAIN heard : heard[j].fn = "configConfirmed"}}
Event == heard[Len(heard)].data
RECORDING_START == 1
RECORDING_STOP == 2

Transition ==
  [CT_WAIT_START1 |-> <<RECORDING_START, "CT_WAIT_STOP1">>,
   CT_WAIT_STOP1  |-> <<RECORDING_STOP, "CT_WAIT_START2">>,
   CT_WAIT_START2 |-> <<RECORDING_START, "CT_WAIT_STOP2">>,
   CT_WAIT_STOP2  |-> <<RECORDING_STOP, "IDLE">>,
   CV_WAIT_START  |-> <<RECORDING_START, "CV_WAIT_STOP">>,
   CV_WAIT_STOP   |-> <<RECORDING_STOP, "IDLE">>]

Awaited == phase # "IDLE" /\ Transition[phase][1] = Event

\* setConfigConfirmedCallback(): it runs before the state change's callback.
Capture ==
  /\ captured1' = IF phase = "CT_WAIT_START1" /\ Confirmed # {} THEN Confirmed ELSE captured1
  /\ captured2' = IF phase = "CT_WAIT_START2" /\ Confirmed # {} THEN Confirmed ELSE captured2
  /\ undisturbed' = (undisturbed /\ phase' # "IDLE")

\* CONFIG TEST and CONFIG VERIFY: a start is followed by a stop, the first stop by
\* a start without arguments, the last stop by the verdict.
AdvancePhase ==
  /\ Awaited
  /\ phase' = Transition[phase][2]
  /\ CASE Event = RECORDING_START -> Stops
       [] phase = "CT_WAIT_STOP1" -> Starts
       [] OTHER -> Silent
  /\ UNCHANGED recBench

\* Mutant: the last session is not recognised.
AnotherToGo == session <= Len(Durations)
MoreSessions == session + 1 < Len(Durations)

\* RECBENCH, reached only by an event no phase was waiting for.
BenchStarted ==
  /\ ~Awaited /\ bench = "STARTING" /\ Event = RECORDING_START
  /\ bench' = "RECORDING" /\ benchStartMs' = millis /\ lastStatusMs' = millis
  /\ QueriesStatus
  /\ UNCHANGED <<session, phase>>

BenchStopped ==
  /\ ~Awaited /\ bench = "STOPPING" /\ Event = RECORDING_STOP
  /\ session' = session + 1
  /\ IF MoreSessions THEN bench' = "BETWEEN" /\ benchStartMs' = millis
                     ELSE bench' = "IDLE" /\ UNCHANGED benchStartMs
  /\ QueriesStatus
  /\ UNCHANGED <<lastStatusMs, phase>>

Unconcerned ==
  /\ ~Awaited
  /\ ~(bench = "STARTING" /\ Event = RECORDING_START)
  /\ ~(bench = "STOPPING" /\ Event = RECORDING_STOP)
  /\ Silent /\ UNCHANGED <<recBench, phase>>

React ==
  /\ pc = "react"
  /\ AdvancePhase \/ BenchStarted \/ BenchStopped \/ Unconcerned
  /\ Capture
  /\ pc' = "drain" /\ heard' = <<>>
  /\ Elsewhere
  /\ UNCHANGED <<fifo, mode, typed>>

------------------------------------------------------------------------------
(* The RECBENCH tick, in whatever mode.                                     *)

StatusDue == bench = "RECORDING" /\ Elapsed(millis, lastStatusMs) >= BENCH_STATUS_INTERVAL_MS
DurationReached == bench = "RECORDING" /\ Elapsed(millis, benchStartMs) >= Durations[session + 1]
PauseOver == bench = "BETWEEN" /\ Elapsed(millis, benchStartMs) >= BENCH_BETWEEN_MS

BenchTick ==
  /\ Drained
  /\ \/ /\ StatusDue
        /\ lastStatusMs' = millis
        /\ QueriesStatus
        /\ UNCHANGED bench
     \/ /\ ~StatusDue /\ DurationReached
        /\ bench' = "STOPPING"
        /\ Stops
        /\ UNCHANGED lastStatusMs
     \/ /\ PauseOver
        /\ bench' = "STARTING"
        /\ StartsAt(BenchRate)
        /\ UNCHANGED lastStatusMs
  /\ pc' = "bench"
  /\ Elsewhere
  /\ UNCHANGED <<fifo, heard, mode, configTest, session, benchStartMs, typed>>

\* dl.update() in download mode, which ends with the download; rec.update() otherwise.
Poll ==
  /\ Drained /\ ~StatusDue /\ ~DurationReached /\ ~PauseOver
  /\ IF downloadMode
       THEN /\ Dl!Update /\ UNCHANGED recOnly
            /\ IF state' \in Dl!Finished /\ ~downloadDone
                 THEN packetCb' = "recorder" /\ downloadMode' = FALSE /\ downloadDone' = TRUE
                 ELSE UNCHANGED mode
       ELSE Rec!Update /\ UNCHANGED <<dlOnly, mode>>
  /\ pc' = "serial"
  /\ Elsewhere
  /\ UNCHANGED <<fifo, heard, configTest, recBench, typed>>

Loop == NoMoreTyped \/ Dispatch \/ React \/ BenchTick \/ Poll

\* The clock counts between two passes of loop(), which turns at least once per
\* clock step: the time a pass takes counts after it.
ClockTick ==
  /\ pc = "serial" /\ pc' = "drain"
  /\ Rec!Tick
  /\ UNCHANGED <<dlOnly, linkVars, heard, app, dev>>

------------------------------------------------------------------------------
(* The link and the RaceBox.                                                *)

Notify(pkt) == \E k \in 0 .. MaxMangled : Push(pkt, k)
Answer(id, cmd) == Notify(Packet(id, 2, cmd))

Drop ==
  /\ LinkDown /\ pc = "drain"
  /\ dev' = [dev EXCEPT !.unlocked = FALSE, !.owes = FALSE, !.erasing = FALSE, !.sending = FALSE]
  /\ Silent /\ UNCHANGED <<pc, heard, app>>

Reads(id) == Receives(id) /\ toDev' = Tail(toDev)

DevUnlock ==
  /\ Reads(UBX_ID_MEM_UNLOCK)
  /\ dev' = [dev EXCEPT !.unlocked = TRUE] /\ Answer(UBX_ID_ACK, UBX_ID_MEM_UNLOCK)

DevRefuses ==
  /\ \E id \in {UBX_ID_MEM_UNLOCK, UBX_ID_REC_CONFIG, UBX_ID_ERASE, UBX_ID_DOWNLOAD} :
       Reads(id) /\ Answer(UBX_ID_NACK, id)
  /\ UNCHANGED dev

DevConfigure ==
  /\ Reads(UBX_ID_REC_CONFIG) /\ dev.unlocked
  /\ dev' = [dev EXCEPT !.recording = Head(toDev).arg, !.rate = Head(toDev).aux, !.owes = TRUE]
  /\ Answer(UBX_ID_ACK, UBX_ID_REC_CONFIG)

DevReport ==
  /\ dev.owes
  /\ dev' = [dev EXCEPT !.owes = FALSE]
  /\ Notify([Packet(UBX_ID_STATE_CHANGE, 12, dev.recording) EXCEPT
               !.aux = IF EchoesRate THEN dev.rate ELSE 0])
  /\ UNCHANGED toDev

DevStatus ==
  /\ Reads(UBX_ID_REC_STATUS)
  /\ Notify(Packet(UBX_ID_REC_STATUS, 12, dev.recording))
  /\ UNCHANGED dev

\* An erase request starts an erase, a cancellation ends it.
DevErase ==
  /\ Reads(UBX_ID_ERASE) /\ dev.unlocked
  /\ dev' = [dev EXCEPT !.erasing = Head(toDev).len = 0]
  /\ UNCHANGED fifo

DevErased ==
  /\ dev.erasing
  /\ dev' = [dev EXCEPT !.erasing = FALSE]
  /\ Answer(UBX_ID_ACK, UBX_ID_ERASE)
  /\ UNCHANGED toDev

\* Its memory is empty: records are DownloadSession's subject.
DevDownload ==
  /\ Reads(UBX_ID_DOWNLOAD)
  /\ dev' = [dev EXCEPT !.sending = TRUE]
  /\ Notify(Packet(UBX_ID_DOWNLOAD, 4, 0))

DevComplete ==
  /\ dev.sending
  /\ dev' = [dev EXCEPT !.sending = FALSE]
  /\ Answer(UBX_ID_ACK, UBX_ID_DOWNLOAD)
  /\ UNCHANGED toDev

Device ==
  /\ connected /\ pc = "drain"
  /\ \/ DevUnlock \/ DevRefuses \/ DevConfigure \/ DevReport \/ DevStatus
     \/ DevErase \/ DevErased \/ DevDownload \/ DevComplete
  /\ Silent /\ UNCHANGED <<connected, drops, pc, heard, app>>

SystemNext ==
  \/ Setup \/ Typed \/ NoMoreTyped
  \/ Reconnect \/ Dispatch \/ React \/ BenchTick \/ Poll
  \/ ClockTick \/ Drop \/ Device

SystemSpec == SystemInit /\ [][SystemNext]_vars

\* loop() is called for ever and the clock counts, which SF says of a clock that is
\* let go on only between two passes; the user, the link and the device may stop at
\* any point.
FairSystemSpec == SystemSpec /\ WF_vars(Setup \/ Loop) /\ SF_vars(ClockTick)

------------------------------------------------------------------------------
(* What LibTest relies on.                                                  *)

(* No start, stop or erase reaches a locked device although the drivers     *)
(* take the packet callback, and so each other's answers, from one another: *)
(* an unlock ACK the downloader swallowed leaves the request waiting, it is *)
(* never sent on the strength of another connection's.                      *)
CommandMeetsUnlockedDevice ==
  \A i \in DOMAIN toDev :
    toDev[i].id = UBX_ID_REC_CONFIG \/ (toDev[i].id = UBX_ID_ERASE /\ toDev[i].len = 0)
      => dev.unlocked

(* A CONFIG TEST that is not disturbed compares what it is meant to: by the *)
(* time a start's phase is left its configuration has been captured, and it *)
(* is the one this test asked for, in the second start too, which names     *)
(* none. So a FAIL is the device's. Undisturbed means that no earlier start *)
(* was under way when the test was typed, and none was asked for since:     *)
(* otherwise the other start's report may be captured for the test's own,   *)
(* and what is left is that something was captured.                         *)
ComparesOwnStarts ==
  /\ phase \in {"CT_WAIT_STOP1", "CT_WAIT_START2", "CT_WAIT_STOP2"} =>
       captured1 # {} /\ (undisturbed => captured1 = {TestRate})
  /\ phase = "CT_WAIT_STOP2" => captured2 # {} /\ (undisturbed => captured2 = {TestRate})

(* RECBENCH never looks up a duration it does not have: whoever stops the   *)
(* recording it is timing, and whenever, a session beyond the last one is   *)
(* never under way.                                                         *)
BenchHasDuration == bench # "IDLE" => session < Len(Durations)

(* DOWNLOAD gives the recorder back: the download ends well, is refused or  *)
(* times out, and the loop leaves download mode, whatever RECBENCH sends    *)
(* meanwhile and although any answer to it feeds the watchdog.              *)
DownloadModeEnds == downloadMode ~> ~downloadMode
==============================================================================
