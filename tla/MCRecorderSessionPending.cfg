SPECIFICATION FairSessionSpec
CONSTANTS
  ClockSize = 3
  ACK_TIMEOUT_MS = 1
  Rates = {10}
  Codes = {}
  DefaultRate = 25
  DefaultCode = 1
  Deliverable <- NoPackets
  HasStateChangeCallback = TRUE
  HasConfigConfirmedCallback = TRUE
  FifoCap = 2
  MaxMangled = 2
  MaxDrops = 1
  DeviceCode = 1
  EchoesRate = TRUE
  MaxAsked = 1
  MaxEvents = 0
PROPERTY PendingEnds
