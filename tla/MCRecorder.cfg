SPECIFICATION HSpec
CONSTANTS
  ClockSize = 3
  ACK_TIMEOUT_MS = 1
  Rates = {10}
  Codes = {1}
  DefaultRate = 25
  DefaultCode = 1
  Deliverable <- MCDeliverable
  HasStateChangeCallback = TRUE
  HasConfigConfirmedCallback = TRUE
  MaxRequests = 2
INVARIANTS TypeOK OncePerRequest
PROPERTY OnlyLatestRequestIsSent
