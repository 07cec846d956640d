SPECIFICATION FairSpec
CONSTANTS
  FifoCap = 2
  Advertises = TRUE
  MaxLinks = 6
  MaxDrops = 0
  MaxUpsets = 1
  MaxFailures = 0
  MaxForeign = 0
  MaxCalls = 0
PROPERTY ReconnectionIsAutomatic
