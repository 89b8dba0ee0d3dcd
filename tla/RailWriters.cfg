SPECIFICATION FairWriterSpec
CONSTANTS
  Keys = {k1}
  Confirmations = 2
  DelistThreshold = 1
  Values = {v1}
  NoTime = NoTime
  NoRail = NoRail
  Unlisted = Unlisted
  MaxTime = 0
  MaxMissing = 1
  MaxFailures = 1
  MaxRestarts = 1
INVARIANTS
  OffSinceIffOff
  FeedAgreesUnlessOverlapped
PROPERTIES
  TableConverges
