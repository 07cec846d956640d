SPECIFICATION Spec
CONSTANTS
  FifoCap = 2
  Advertises = TRUE
  MaxLinks = 6
  MaxDrops = 1
  MaxUpsets = 0
  MaxFailures = 0
  MaxForeign = 0
  MaxCalls = 1
INVARIANT NeverWritesThroughNull
