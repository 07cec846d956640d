SPECIFICATION SSpec
CONSTANTS
  ClockSize = 4
  TIMEOUT_MS = 1
  HasRecordCallback = TRUE
  HasStateChangeCallback = TRUE
  CountBound = 3
  SilenceBound = 6
  Deliverable <- MCDeliverable
INVARIANT TypeOK
PROPERTIES LateAnswersIgnored WatchdogMeasuresSilence

