SPECIFICATION FairStreamSpec
CONSTANTS
  UBX_MAX_PAYLOAD = 80
  RACEBOX_FIFO_SIZE = 100
  Notifications <- NoBytes
  Readings <- MCReadings
  Others <- MCOthers
  Commands <- MCCommands
  ChunkSizes = {60, 244}
  Backlog = 60
  MaxSent = 2
  MaxCommands = 1
  MaxDrops = 1
INVARIANTS StreamTypeOK HeardIsSent LosslessUnlessOverflow CommandsAreFrames
PROPERTIES RingImplementsQueue EverythingArrives
