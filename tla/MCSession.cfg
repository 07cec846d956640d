SPECIFICATION FairSessionSpec
CONSTANTS
  ClockSize = 3
  TIMEOUT_MS = 1
  HasRecordCallback = TRUE
  HasStateChangeCallback = TRUE
  CountBound = 9
  Deliverable <- NoPackets
  Stored = 2
  SecurityEnabled = TRUE
  StopsEarly = TRUE
  FifoCap = 2
  MaxMangled = 2
  Impatient = TRUE
  MaxBegins = 2
  MaxMarkers = 1
  MaxDrops = 1
INVARIANTS SessionTypeOK RecordsInOrder SilentSuccessIsComplete TriggerMeetsUnlockedDevice
PROPERTIES KeepsPromise TriggeredDownloadEnds
