SPECIFICATION SessionSpec
CONSTANTS
  ClockSize = 4
  TIMEOUT_MS = 1
  HasRecordCallback = TRUE
  HasStateChangeCallback = TRUE
  CountBound = 9
  Deliverable <- NoPackets
  Stored = 2
  SecurityEnabled = TRUE
  StopsEarly = FALSE
  FifoCap = 2
  MaxMangled = 2
  Impatient = FALSE
  MaxBegins = 2
  MaxMarkers = 1
  MaxDrops = 1
INVARIANT SilentSuccessAlwaysComplete
