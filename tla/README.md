# RaceBoxMicroBleClient in TLA+

Models of the library under `src/src/`, an Arduino/ESP32 client for RaceBox GPS
loggers over Bluetooth Low Energy: what its drivers do when packets are late,
lost or unexpected, when the link drops, when the clock wraps and when the
application calls them at an awkward moment.

## 1. The system

```
 application loop (Arduino task)                      NimBLE task
 ─────────────────────────────────                    ──────────────────────────
 RaceBoxRecorder   RaceBoxDownloader                  onResult / onDisconnect
   begin, start…     begin, update                    notification
        │  _onPacket ▲ │                                   │
        ▼            │ ▼                                   ▼
   RaceBoxBle: sendCommand  update → _drainFifo ◀── RaceBoxFifo ◀── push
        │                        │ (one packet callback)
        ▼                        ▼
   UBX encode               UBX decode → RaceBoxParser → live / history record
```

| Component | State it keeps | Operations | What makes it correct |
|---|---|---|---|
| **ubx** (`ubx.h`, `ubx.cpp`) | none | encode, decode, Fletcher checksum | decode inverts encode and accepts no damaged frame |
| **RaceBoxFifo** | ring buffer of bytes, head, tail, length, overflow count, a mutex | `push` (NimBLE task), `clear`, `extractFrame` (loop task) | the bytes kept are the newest ones, in order; frames come out whole, once, in order |
| **RaceBoxParser** | none | `raceBoxParse` | each field is read from its offset with its width and sign |
| **RaceBoxBle** | `_connected`, `_doConnect`, `_doScan`, `_rxChar`, `targetFound`, `targetAddr`, the FIFO, one packet callback | `begin`, `update` (connects, re-scans, drains), `disconnect`, `sendCommand`; callbacks `onResult`, `onDisconnect`, notification | it reconnects by itself; `isConnected()` tells the truth; nothing of an old session reaches a new one |
| **RaceBoxRecorder** | recording state, pending command, command timer, erase flag and progress, stored and confirmed configuration | `setConfig`, `queryStatus`, `startRecording`, `stopRecording`, `eraseMemory`, `cancelErase`, `update`, `_onPacket` | a command is sent only to an unlocked device, at most once per request, and every request ends |
| **RaceBoxDownloader** | download state, announced and received counts, timer, security code | `begin`, `setSecurityCode`, `eraseMemory`, `update`, `_onPacket` | records in order and once; it ends; it ends well only when complete |
| **LibTest** (example) | benchmark and configuration test phases, download mode | serial commands, the recorder's callbacks, loop | both drivers share one packet callback and none sends on the strength of the other's answers; a verdict compares its own measurements; the loop gets out of download mode |

How they interact: the drivers call `sendCommand()`; `RaceBoxBle::update()` runs
on the application's loop, takes frames out of the FIFO and hands each to the
one registered packet callback, so the recorder and the downloader replace each
other; the NimBLE task fills the FIFO and sets the flags `update()` acts on,
with no lock but the FIFO's.  The device is external: it forgets its unlock
with every connection, answers commands with ACK or NACK, and streams records.

What is hard here: a timer races a late answer; an answer belongs to an earlier
command; a link loss falls between a request and its answer; the FIFO overflows
while the loop is busy; two tasks share flags with no lock; a counter or a flag
of the previous operation is still there when the next one starts.


## 2. The modules

| Module | Models | State and actions |
|---|---|---|
| `Ubx` | `ubx.h`: ids and the packet as the drivers see it | no state; a packet is a record of class, id, length and the payload values a handler tests |
| `Millis` | `millis()`, a wrapping unsigned counter of `ClockSize` values | `Elapsed` is the code's unsigned subtraction, `Later` one tick |
| `RaceBoxDownloader` | the class of that name, one action per entry point and per branch of `_onPacket` | variables named after the members; `tx` and `calls` hold the command written and the callback run by the last step; `ok` is what `sendCommand()` returned |
| `DownloaderSilence` | the same with a history variable, the silence in unwrapped ticks | says what the watchdog's subtraction is for |
| `RaceBoxRecorder`, `RecorderRequests` | the same for `RaceBoxRecorder`; the second adds the history of requests and commands | a configuration is represented by its data rate, the filters travel in the same command |
| `Link` | what lies between a driver and the device: connection, commands under way, the FIFO counted in packets | an overflowing push costs the oldest packets, up to `MaxMangled` of them: the damaged one and those swallowed on resynchronisation |
| `HistoryDownload` | abstract: what a download promises its application | `status`, `got`, `missed`, `first` |
| `DownloadSession` | application loop + `RaceBoxDownloader` + `Link` + a device that answers, streams records, may stop early | `INSTANCE HistoryDownload` is its refinement mapping |
| `RecorderSession` | application loop + `RaceBoxRecorder` + `Link` + a device with a code, a button, an erase that takes time | |
| `UbxCodec` | `ubx.cpp`: checksum, `ubxEncode`, `ubxDecode`, on bytes | no state |
| `RaceBoxFifo` | the ring: `buf`, `head`, `tail`, `len`, the mutex; `push()`, `clear()`, `extractFrame()` with every turn of their loops a step | `npc`, `todo` say how far a push is, `frame` is what `extractFrame()` returned |
| `ByteQueue` | abstract: a bounded queue of bytes that prefers the newest | one variable, `queue` |
| `RaceBoxParser` | `raceBoxParse()` on bytes | no state; scaled fields stay integers |
| `FrameStream` | the way of a message, byte by byte: device, notifications, ring, decoding, routing, parsing; `sendCommand()` back | `INSTANCE ByteQueue` in `RaceBoxFifo` is the ring's refinement mapping |
| `LibTest` | the example of that name: both drivers on one packet callback, typed commands, RECBENCH, CONFIG TEST, CONFIG VERIFY | `INSTANCE`s of both drivers share `millis`, `tx` and `calls`; `pc` walks through `loop()` |
| `RaceBoxBle` | connection, reconnection, hand-over of notifications, `sendCommand()`, `disconnect()` as two tasks, every load and store a step | `mpc` and `npc` say where the Arduino task and the NimBLE task are |
| `MC…` | bounds and packet sets for TLC | |
| `RaceBoxDownloaderProofs`, `RaceBoxRecorderProofs` | proofs about each driver under any environment, and then about its session | |
| `RaceBoxBleProofs`, `LibTestProofs` | proofs about the connection, and about both drivers on one callback | |
| `RaceBoxFifoProofs`, `FrameCodecProofs`, `FrameStreamProofs` | proofs about the ring; codec and parser; the way of a message | the third rests on the other two |
| `DriverLemmas` | lemmas about packets, the clock and the FIFO of `Link` | cited by the driver, session and `LibTest` proofs |

`DownloadSession`, `RecorderSession` and `LibTest` take the drivers' actions as they
are: the driver module defines `OnPacket(pkt, ok)` and the composition chooses `pkt`
from the FIFO and `ok` from the link; a step in which the driver does not run is its
`Silent`.  The drivers' own `Next` hands them any packet
in any state at any time, which is what the first proofs about them take.

Several definitions come in pairs, the second preceded by *Mutant*: a plausible
bug, used only to confirm that a property notices it.

## 3. What the runs check

| Run | Question | States, bounds |
|---|---|---|
| `downloader` | handed anything at any time: does a finished download stay finished, does the watchdog measure silence across the wrap of `millis()`? | 30 thousand; clock of 4 values, limit 1 tick, silences up to 6 ticks, so that the counter wraps during a wait |
| `session` | two downloads, the second possibly begun while the first runs: the first one's records in order and once, its silent success only when complete, no trigger at a locked device, a triggered download ends, refinement of `HistoryDownload` | 0.9 million; 2 records through a FIFO of 2, an overflow costing up to 2, one link loss, one boundary marker, an erase, a device that may stop early, a clock of 3 values |
| `session_again` | *violation*: is success by silence complete in a second download? | 2 records, 2 downloads |
| `session_unlock_hangs` | *violation*: does a wait for the unlock end? | 1 record |
| `recorder` | handed anything at any time: is a request served at most once, and only the latest? | 2 requests; 2 are enough for one to supersede another |
| `recorder_session` | overlapping requests, queries and cancellations, a wrong code, button, overflow, a link loss: commands meet an unlocked device, an erase under way is known, its progress is not an older one's, the command timer is never left running | 0.4 million; 2 calls of the application's, one data rate, FIFO of 2, 1 loss, 1 press |
| `recorder_pending_hangs` | *violation*: does a pending request end? | 1 request |
| `ble` | does no frame outlive its link; with set-ups undisturbed, is no live client deleted, does `isConnected()` tell the truth, is a lost link made again? | 421 thousand; 6 links, 2 losses, 1 disturbed set-up, 2 failed connections, 2 calls, 1 foreign device |
| `ble_stuck` | *violation*: is reconnection automatic? | one link lost during set-up |
| `ble_null` | *violation*: does `sendCommand()` never use a null characteristic? | one loss, one call |
| `stream` | byte by byte: is what the application hears what the device sent, field by field, in order; is all of it heard if nothing overflowed; does the ring refine a byte queue; does a message arrive; can the device read what `sendCommand()` writes? | 114 thousand; a ring of 100 bytes and live frames of 88, pieces of at most 60 and of 244 bytes, 2 messages, 1 command, 1 loss; a position that looks like a frame's header |
| `libtest` | both drivers on one packet callback: no command at a locked device, a CONFIG TEST compares captured configurations, and those of its own two starts if no other start is under way or asked for, RECBENCH stays in its table, download mode ends | 0.5 million; any 2 commands at any time, 2 benchmark sessions, FIFO of 2, 1 loss, a clock of 2 values: every timer races an answer for one tick |

The bounds are small because the hazards are: a superseding request needs two
requests, a wrap needs a clock longer than the limit, an old answer needs one
loss and one more begin, an overflow a FIFO that holds one packet less than the
device sends.  The ring of `stream` holds one frame and a bit, so that frames wrap
and a second one overflows; the announced length of the false header ends in the next
frame, so that extraction goes wrong and has to recover.  Two commands in `libtest` are
one that starts a machine (RECBENCH, CONFIG TEST, DOWNLOAD) and one that disturbs it.
`MaxLinks` of `RaceBoxBle` exceeds what losses and calls can
consume, so a connection never fails because of the bound.

No deadlock appears in any run: the loop and the clock always have a step.

## 4. Fairness

- The Arduino loop is called for ever and the clock counts: weak fairness of
  `Loop` and `ClockTick`.  `ClockTick` waits for the loop to have polled
  (`polled`): the loop turns in milliseconds, the limits are seconds.
- Nothing is asked of the device, the link or the application; each may stop at
  any point, and `TriggeredDownloadEnds` and `CommandTimerEnds` hold all the same.
- In `LibTest` the clock counts between two passes of `loop()` (section 6), so that
  `ClockTick` is enabled again and again and not for ever: strong fairness says that
  the clock counts.
- In `FrameStream` the loop and a push under way go on (weak fairness).  That a
  notification is delivered is strongly fair: while it waits the mutex is taken and
  given back by the loop, and FreeRTOS wakes a waiting task when it is given back.
- In `RaceBoxBle` both tasks run (FreeRTOS schedules them; neither waits for the
  other in this code), and a RaceBox that is off the link is heard by a running
  scan in the end (`Advertised`).

## 5. What is proved

TLAPS proves, for every value of the constants that the assumptions allow, every safety
property the passing runs check and both refinements; `HeardIsSent`, which is not true of
all messages, with the one exception it has.  A session's bounds (calls, losses, presses,
ticks of silence) are constants, so the theorems are about any number of them.

**The drivers under any environment**, whatever packets they are handed and whenever
they are called:

- `RaceBoxDownloaderProofs`: `TypeCorrect`; `LateAnswersIgnoredHolds`, that nothing
  but `begin()` moves a finished driver or makes it hand over a record;
  `WatchdogIsExact`.  The invariant of the last, `SilenceInv`, ties the wrapped
  difference `Elapsed(millis, lastRxMs)` to the unwrapped silence modulo `ClockSize`:
  without it the difference says nothing once a silence exceeds a full turn.
- `RaceBoxRecorderProofs`: `TypeCorrect`; `OncePerRequestHolds` and
  `OnlyLatestRequestIsSentHolds`, for any number of requests and any answers in any
  order.  `RequestInv` adds to the count that a remembered request is always the
  latest one; only with it is the step that sends it harmless.

**A download session** (second part of `RaceBoxDownloaderProofs`):
`SessionTypeCorrect`, `TriggersMeetUnlockedDevice`, `RecordsComeInOrder`,
`SilentSuccessIsEarned`, `SessionIgnoresLateAnswers`, and `SessionKeepsPromise`, the
refinement of `HistoryDownload`.  None of the invariants is inductive; `SessionInv`
(`SessionInvariant`) is, and its parts say why they hold:

- `Lock`: an unlock ACK in the FIFO and a trigger on the air both mean an unlocked
  device, because the loss that locks it empties both.
- `OneTrigger`: a first download sends one trigger, and until the device has read it
  no count, record or final ACK is anywhere; so what arrives later belongs to it.
- `Ascending`, `InTurn`: the records handed over, those in the FIFO and those still to
  be sent are ascending, the count comes before them and the final ACK after them.
- `Counting`, `Accounted`: the count is that of the whole memory, and from then on each
  record is handed over, lost, in the FIFO or still to be sent.  A success by silence
  has as many records as were announced, all different, so it has all of them: a
  pigeonhole the proof takes from `Ascending`, where the i-th record handed over is at
  least the i-th of the memory.

All but `Lock` are claimed of a first download only: section 7 says what a second one
may do.

**A recorder session** (second part of `RaceBoxRecorderProofs`):
`SessionTypeCorrect`, `CommandsMeetUnlockedDevice`, `ErasesAreKnown`,
`ProgressIsNeverAhead`.  `RecorderInv` (`RecorderInvariant`) has the same `Lock`, and
follows the one erase that can be under way while none was cancelled: as a remembered
request (`OneErase`), as a command on the air with no report of an erase anywhere
(`Commanded`), in the device with its end not reported (`AtWork`), as reports in the
FIFO none of which is ahead of the device (`Reported`).

**The connection** (`RaceBoxBleProofs`), any FIFO size, any number of links and losses,
every store of the two tasks a step:

- `TypeCorrect`; `FramesAreOfThisLinkHolds`.  `FrameInv` adds when the FIFO may hold
  anything at all: while the disconnect callback is running there is no link, and
  after its last store until a new subscription the FIFO is empty.
- `LiveClientIsKeptHolds`, `ConnectedMeansLinkedHolds`.  `LifeInv` (`LifeInvariant`)
  says that, while no set-up is disturbed, of "a device was found", "there is a link" and
  "a scan is owed" at most one holds at a time (`Apart`), and that a flag one task has
  set the other has not read yet (`Handover`).  What each of them means is spread over
  flags and the places both tasks are at, which is why the flags alone are no invariant.

**Both drivers on one callback** (`LibTestProofs`): `SystemTypeCorrect`,
`CommandsMeetUnlockedDevice`, `TestComparesOwnStarts`, `BenchAlwaysHasDuration`, from
`SystemInv` (`SystemInvariant`), which adds what the packets in the FIFO may be
(`FifoFits`) and that a start is only heard of with its confirmation (`HeardFits`): on
this the order of the recorder's two callbacks in CONFIG TEST depends.  Whose start is
confirmed needs a second invariant, `OwnInv` (`OwnInvariant`): while the test is
undisturbed, every start between the driver's configuration and the application's
callback, on the air, in the device, in the FIFO, is at the rate the test set
(`OwnStarts`).  It covers firmware that echoes no rate, where the driver confirms what it
has stored.  The drivers are instances here, so their steps are first classified by what
they write.

**The ring** (`RaceBoxFifoProofs`), any size, any notifications: `FifoTypeCorrect` and
`RingIsQueue`, that every turn of the loops in `push()` and `extractFrame()` is a step of
`ByteQueue` or a stutter.  `RingInv` (`RingInvariant`) is `head = Wrap(tail + len)`: the
code keeps three numbers where two would do, and nothing else ties them together.

**The codec and the parser** (`FrameCodecProofs`), any bytes: `EncodeFrames` and
`DecodeInvertsFraming`, that `ubxEncode()` writes and `ubxDecode()` reads the protocol's
frame of every packet; `ParseInvertsLayout`, that `raceBoxParse()` returns every field of
every live record as it was measured, sign and width included; `MessagesAreHeardAsMeant`,
which puts them together for a message and its callback; and, the other way round,
`DecodeAcceptsOnlyFrames`, that bytes `ubxDecode()` takes for a packet begin with the
frame of that packet.  The frame and the record are
the device's here, stated independently of the code (closed sums, a table of offsets).
The checksum's loop is a recursive function; the provers have no induction over an
operator, so the module proves induction over a set from the well-foundedness of the
naturals, that a function defined by recursion over an interval exists, and the loop's sums
from that.  The module ends with the bytes of a sequence of messages: where in them each
message lies, and that they only grow at the end as more is sent.

**The way of a message** (`FrameStreamProofs`), any ring, any cutting into
notifications, any messages the device may send, any number of losses:
`StreamTypeCorrect`, `CommandsAreReadable`, `StreamRingIsQueue` (the ring refines
`ByteQueue` also under the two tasks), and `NothingLostUnlessOverflow`.
`StreamInv` (`StreamInvariant`) says that, as long as nothing overflowed, what is in the
ring, in the pusher's hands and on the air, in this order, are the first bytes of the
messages sent and not yet taken, and all of them while the link is up (`InFlight`).  So
extraction always finds a message's first byte at the front: no garbage is skipped and no
frame is cut in the middle of another.

After an overflow the ring begins anywhere in a message, and extraction looks for the next
two header bytes.  `HeardIsSentUnlessFalseFrame` says what is left then: each callback is for
a message of this connection, in their order and none twice, or there is a `FalseFrame`,
a whole frame with its checksum in the bytes of the messages at a place where no message
begins.  Its invariant (`Traced`) follows bytes instead of messages: the frame cut out, the
ring, the pusher's hands and the air are pieces of the connection's bytes, each behind the
one before, with gaps where bytes were overwritten or skipped.  So a frame that decodes is
a frame in those bytes (`DecodeAcceptsOnlyFrames`); it is one of the messages, behind those
heard before, or a false frame, and a false frame stays one however the stream goes on.
The exception is real: with a live record whose payload contains a frame TLC finds
`HeardIsSent` violated after an overflow, and the disjunction holding.  The messages of
`stream` have no false frame, in any order: `MCStream` assumes so (`NoFalseFrame`), TLC
evaluates it, and `HeardIsSent` is checked there as it stands.

Assumptions: those named in `ASSUME`, which TLC evaluates in the runs.  Besides types and
positive sizes they say that `RECBENCH`'s table of durations is not empty
(LibTest.ino:96), that `UBX_MAX_PAYLOAD` fits the two bytes a frame has for it, that a
live record is not longer (ubx.h), and that the device reports what the fields of
its record can hold and no packet the library is not made for (`DeviceAssumptions`).

Only model-checked: liveness (`TriggeredDownloadEnds`, `CommandTimerEnds`,
`LostLinkIsMadeAgain`, `EverythingArrives`, `DownloadModeEnds`).  Fairness and ENABLED are
out of TLAPS's reach.

## 6. Decisions a reader should know

- A frame is dispatched in one step, driver included, and the device's steps and a
  link loss fall between frames.  In `RaceBoxBle` loads and stores are separate
  steps; there a frame is only its connection's number.
- In the sessions a link loss empties the FIFO in the same step.  That is sound for
  what they check because a new connection is made only by the loop, after the
  disconnect callback (`FrameInv`); no step of the loop between the two can
  reach the device.
- Sessions and `LibTest` count an overflow in packets: the oldest goes, and up to
  `MaxMangled` in all.  A false header swallows at most 264 bytes, far less than the
  4096 of a full FIFO, so the newest packets are never among those lost; `stream`
  checks with bytes what a ring of one frame's size allows.
- In `RaceBoxFifo` the mutex is a guard: `push()`, `clear()` and `extractFrame()` wait
  for `portMAX_DELAY`, so none of them goes on without it.
- In the sessions `dl.update()` and `rec.update()` follow the last packet of the drain in
  one step.  They read no packet, and a packet or a loss in between is seen by neither.
- `LibTest` counts the time a pass of `loop()` takes after the pass, and lets the device
  and the link move only at `pc = "drain"`.  The
  other steps of the loop read no packet, and a command written while the link falls is
  one that could not be written or one that was lost, both of which are possible anyway.
  The state change the recorder reports is handed over in a step of its own (`React`),
  its two callbacks together, in the order the driver runs them.
- A configuration is its data rate: in `LibTest` the test's rate differs from the
  default, so that a start confirmed for another is noticed, and two configurations
  compare equal when their rates do.  `captured1` and `captured2` are the rates CONFIG
  TEST's verdict compares, and `{}` until this test captured them, which the code does not
  record.  `undisturbed` only observes: that no start was on the air, in the device or in
  the FIFO when the test was typed, and REC START and RECBENCH were not typed since.
  Nobody presses the RaceBox's button in `LibTest`; in `RecorderSession` somebody does.
- Which callbacks are registered are constants: `LibTest` registers both of the
  recorder's and no state change callback of the downloader's, DownloadBench registers one.
- `connect()` is one step: NimBLE blocks it until the host task answered, and the
  host task answers between two callbacks.
- One RaceBox is in range, other devices with the same service are; its RX
  characteristic is always found on a live link.
- The device is external.  It is modelled from what the drivers and examples
  expect of it, with every answer it may choose left open.
- The counters are natural numbers up to a bound; only `millis()` wraps.
- The device of `FrameStream` reports its battery as a RaceBox Mini does, a level in seven
  bits and a flag (`Measurable`); section 7 says what becomes of a Micro's.

## 7. Where code and documentation disagree

With a run that shows it:

- `begin()` keeps the last download's counts, so a second, empty download may end
  as DONE (`session_again`, RaceBoxDownloader.cpp:11).
- No timeout covers UNLOCKING (`session_unlock_hangs`, RaceBoxDownloader.cpp:77).
- A request whose unlock could not be written is pending for ever
  (`recorder_pending_hangs`, RaceBoxRecorder.cpp:71).
- A link lost during set-up can leave the client neither scanning nor connecting
  (`ble_stuck`, RaceBoxBle.cpp:117).
- `sendCommand()` may write through a null pointer (`ble_null`, RaceBoxBle.cpp:140).

Seen while modelling, no run kept:

- `isDone()` is true with records missing after a FIFO overflow, since the final
  ACK ends a download whatever the count (RaceBoxDownloader.cpp:141; README.md:337
  says "all records received").  `KeepsPromise` states what holds: a record not
  handed over was lost on the way.
- A command sent while `millis()` is 0 is not timed (RaceBoxRecorder.cpp:22, 50).
- A refused or unanswered erase leaves `isErasing()` true (RaceBoxRecorder.cpp:246).
- `cancelErase()` unregisters the progress callback (RaceBoxRecorder.cpp:109).
- `lastAck()` is true as soon as the unlock is acknowledged (RaceBoxRecorder.cpp:215).
- The confirmed rate falls back to the stored rate, not to the sent one, if
  `setConfig()` comes in between (RaceBoxRecorder.cpp:301).
- Any device advertising the Nordic UART service stops the scan for good
  (RaceBoxBle.cpp:24).
- A disconnect handled between `connect()` and line 109 leaves `isConnected()` true;
  two disturbed set-ups can make `update()` delete a live client (RaceBoxBle.cpp:72).
- RaceBoxFifo.h:26-28 promises a "checksum-valid frame", but `extractFrame()` checks no
  checksum: `ubxDecode()` does, and a false header has by then taken good frames with it.
- The parser masks the battery byte to 7 bits (RaceBoxParser.cpp:68), but a RaceBox
  Micro sends tenths of a volt in 8 (LibTest.ino:110-114): 12.8 V reads as 0.0 V,
  charging.  `headingAccuracy` and `pdop` of `RaceBoxData` are never filled.
- LibTest.ino:31 says of the drivers that "only one is active at a time", but the
  RECBENCH tick goes on using the recorder in download mode, where its answers go to the
  downloader and RECBENCH waits for ever (LibTest.ino:266).
- CONFIG TEST and CONFIG VERIFY cannot be aborted and wait for ever if a command is
  refused (LibTest.ino:298); CONFIG TEST may take the report of an earlier start, or of one typed
  meanwhile, for its own (LibTest.ino:359), and then compares a configuration it did not
  ask for: `ComparesOwnStarts` claims the rates only of a test that is `undisturbed`, and of
  any other only that something was captured; RECBENCH may be started while CONFIG TEST runs, and CONFIG VERIFY while RECBENCH does.
- RaceBoxParser.h:29-36 gives offsets that differ from those raceBoxParse reads.

## 8. Not modelled

The sniff, error, overflow and debug callbacks, which report and change nothing;
scaling of the parsed integers to floating point; LibTest's printing, its live switch,
its record counts and what its verdicts compare besides the rates; the statistics of DownloadBench; the
two examples DownloadHistory and LiveData, whose loops make the calls `DownloadSession`
makes and print; `targetAddr`, since one RaceBox is in range; Unity and the tests' mocks.

## 9. Plan

1. Downloader, its session and abstract specification; recorder and its session;
   connection management; type and safety proofs about each (done).
2. `RaceBoxFifo` refining a byte queue, `UbxCodec`, `RaceBoxParser` and their
   composition `FrameStream` (done).
3. Both drivers on one packet callback, with `LibTest` on top (done).
4. Proofs of every safety property and of both refinements (done, section 5).
5. What is heard after an overflow, for any messages (done, section 5).
6. What is left: properties for the hazards that have none (an unanswered erase,
   `cancelErase()`'s ignored failure).
