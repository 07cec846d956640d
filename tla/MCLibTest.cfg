SPECIFICATION FairSystemSpec
CONSTANTS
  ClockSize = 2
  ACK_TIMEOUT_MS = 0
  TIMEOUT_MS = 0
  SECURITY_CODE = 1
  DefaultRate = 25
  TestRate = 10
  BenchRate = 25
  Durations <- MCDurations
  BENCH_BETWEEN_MS = 1
  BENCH_STATUS_INTERVAL_MS = 1
  EchoesRate = TRUE
  FifoCap = 2
  MaxMangled = 1
  MaxDrops = 1
  MaxTyped = 2
INVARIANTS SystemTypeOK CommandMeetsUnlockedDevice ComparesOwnStarts BenchHasDuration
PROPERTIES DownloadModeEnds
