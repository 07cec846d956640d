SPECIFICATION FairSpec
CONSTANTS
  FifoCap = 2
  Advertises = TRUE
  MaxLinks = 6
  MaxDrops = 2
  MaxUpsets = 1
  MaxFailures = 2
  MaxForeign = 1
  MaxCalls = 2
INVARIANTS BleTypeOK FramesAreOfThisLink LiveClientIsKept ConnectedMeansLinked
PROPERTY LostLinkIsMadeAgain
